---------------------------- MODULE Spec2Model ----------------------------
(***************************************************************************)
(* Ball-sort puzzle solver: the State class (validate, solved, moves,      *)
(* applyMove, canonicalKey, equivalentTo) and the breadth-first solve()    *)
(* with its cooperative yield, modelled from the box version of the        *)
(* solver module.                                                          *)
(*                                                                         *)
(* A Color is its two-letter code, a box is a sequence of colors listed    *)
(* bottom-up (the last element is the top ball), and a State is a record   *)
(* with the field boxes.  Box numbers are 0-based as in the source, so box *)
(* number i is boxes[i + 1].  JavaScript strings are sequences of UTF-16   *)
(* code units, which is what join, sort and JSON.stringify work on.        *)
(***************************************************************************)
EXTENDS Integers, Sequences, FiniteSets, TLC

VARIABLES
    st,               \* StateSpec: the State object under test
    initialState,     \* solve: the argument initialState
    progressCallback, \* solve: whether a progressCallback was passed
    pc,               \* solve: "called", "loop", "yield" or "done" ("idle": no solve)
    queue,            \* solve: Array<[State, Move[]]>
    visited,          \* solve: Set<string> of canonical keys
    processed,        \* solve: the counter processed
    cur,              \* solve: the locals [state, path] held across the await
    reports,          \* the calls progressCallback has received, in order
    yields,           \* how many times solve has awaited the timer
    result,           \* the SolveResult the promise resolved with, or NoResult
    previous,         \* TwiceSpec: the SolveResult of the call before, or NoResult
    second,           \* InterleavedSpec: the locals of a second call of solve
    builder,          \* EditSpec, PlaySpec: the state of the PuzzleBuilder component
    otherState,       \* PairSpec: the second State, the argument of equivalentTo
    heap,             \* ObjectSpec: the arrays allocated so far, by address
    callerBoxes,      \* ObjectSpec: the address of the array passed to new State
    object,           \* ObjectSpec: the State constructed, or the error thrown
    returned,         \* ObjectSpec: what object.applyMove returned or threw
    last              \* ObjectSpec: the last operation on the heap

vars == <<st, initialState, progressCallback, pc, queue, visited, processed,
          cur, reports, yields, result, previous, second, builder,
          otherState, heap, callerBoxes, object, returned, last>>

heapVars == <<heap, callerBoxes, object, returned, last>>

solveVars == <<initialState, progressCallback, pc, queue, visited, processed,
               cur, reports, yields, result, previous>>

-----------------------------------------------------------------------------
(* Bounds of the model *)

\* StateSpec: a State under test has at most this many boxes ...
MaxBoxes == 3
\* ... each of at most this many balls ...
MaxLen == 4
\* ... and at most this many balls in all.
MaxBalls == 8

-----------------------------------------------------------------------------
(* Colors *)

\* The 15 color codes that validate() accepts.
validColors ==
    {"Re", "Or", "Ye", "LG", "BG", "DG", "Cy", "LB",
     "DB", "Pu", "Ma", "Pi", "Wh", "Gr", "Bl"}

\* The UTF-16 code units of a color code ("XX" is the invalid code the
\* tests use).
CodeUnits(c) ==
    CASE c = "Re" -> <<82, 101>>  [] c = "Or" -> <<79, 114>>
      [] c = "Ye" -> <<89, 101>>  [] c = "LG" -> <<76, 71>>
      [] c = "BG" -> <<66, 71>>   [] c = "DG" -> <<68, 71>>
      [] c = "Cy" -> <<67, 121>>  [] c = "LB" -> <<76, 66>>
      [] c = "DB" -> <<68, 66>>   [] c = "Pu" -> <<80, 117>>
      [] c = "Ma" -> <<77, 97>>   [] c = "Pi" -> <<80, 105>>
      [] c = "Wh" -> <<87, 104>>  [] c = "Gr" -> <<71, 114>>
      [] c = "Bl" -> <<66, 108>>  [] c = "XX" -> <<88, 88>>

-----------------------------------------------------------------------------
(* The State class *)

\* What a throw leaves in place of a value.
Thrown(message, value) == [error |-> message, value |-> value]

IsThrown(x) == "error" \in DOMAIN x

\* All balls of all boxes, box by box, bottom to top: the order in which the
\* nested for-of loops of validate() and solved visit them.
RECURSIVE Balls(_)
Balls(boxes) ==
    IF boxes = <<>> THEN <<>> ELSE Head(boxes) \o Balls(Tail(boxes))

\* Faulty variant: only the last ball of each box is looked at.
validateTopBalls(boxes) ==
    LET tops == SelectSeq(boxes, LAMBDA box : box # <<>> /\ box[Len(box)] \notin validColors)
    IN  IF tops = <<>> THEN <<>> ELSE <<Head(tops)[Len(Head(tops))]>>

\* validate(): the first ball that is no valid color, as a one-element
\* sequence, or <<>> when there is none.
validate(boxes) ==
    LET bad == SelectSeq(Balls(boxes), LAMBDA ball : ball \notin validColors)
    IN  IF bad = <<>> THEN <<>> ELSE <<Head(bad)>>

\* new State(boxes): the State that holds a copy of boxes (boxes.map(box =>
\* [...box]); a value and its copy are the same value here), or the error
\* validate() throws.
State(boxes) ==
    LET bad == validate(boxes)
    IN  IF bad # <<>> THEN Thrown("Invalid color", bad[1])
        ELSE [boxes |-> boxes]

\* The Map colorCounts that solved builds, one ball at a time with
\* (colorCounts.get(ball) || 0) + 1: each color that occurs, with the number
\* of balls of it.
CountBalls(balls) ==
    [c \in {balls[i] : i \in 1..Len(balls)} |->
        Cardinality({i \in 1..Len(balls) : balls[i] = c})]

\* box.every(ball => ball === box[0])
EveryBallIsFirst(box) == \A i \in 1..Len(box) : box[i] = box[1]

\* A second loop that does not look at the length of the box.
BoxBlocksSolvedAnyLength(box) ==
    /\ Len(box) # 0
    /\ ~EveryBallIsFirst(box)

\* The second loop of solved: a box that is neither empty nor four balls of
\* one color makes it return false.
BoxBlocksSolved(box) ==
    /\ Len(box) # 0
    /\ (Len(box) # 4 \/ ~EveryBallIsFirst(box))

\* solved without its third loop, the one over the color counts.
solvedWithoutCounts(state) ==
    ~\E i \in 1..Len(state.boxes) : BoxBlocksSolved(state.boxes[i])

\* get solved()
solved(state) ==
    LET colorCounts == CountBalls(Balls(state.boxes))
    IN  IF \E i \in 1..Len(state.boxes) : BoxBlocksSolved(state.boxes[i])
        THEN FALSE
        ELSE IF \E c \in DOMAIN colorCounts : colorCounts[c] # 4
        THEN FALSE
        ELSE TRUE

Move(fromIdx, toIdx) == [fromBoxNumber |-> fromIdx, toBoxNumber |-> toIdx]

\* A destination that takes a fifth ball.
IsFullOverFour(toBox) == Len(toBox) > 4

\* toBox.length >= 4: the destination takes no more balls.
IsFull(toBox) == Len(toBox) >= 4

\* Faulty variant: the top colors are not compared.
MoveIsPushedAnyTop(boxes, fromIdx, toIdx) ==
    /\ Len(boxes[fromIdx + 1]) # 0
    /\ ~(fromIdx = toIdx \/ IsFull(boxes[toIdx + 1]))

\* Faulty variant: the inner loop starts at fromIdx + 1, so no ball moves to
\* a box of a lower number.
MoveIsPushedUpward(boxes, fromIdx, toIdx) ==
    LET fromBox == boxes[fromIdx + 1]
        toBox   == boxes[toIdx + 1]
    IN  /\ Len(fromBox) # 0
        /\ fromIdx < toIdx
        /\ ~IsFull(toBox)
        /\ (Len(toBox) = 0 \/ toBox[Len(toBox)] = fromBox[Len(fromBox)])

\* The body of the inner loop of moves: whether the pair is pushed.
MoveIsPushed(boxes, fromIdx, toIdx) ==
    LET fromBox == boxes[fromIdx + 1]
        toBox   == boxes[toIdx + 1]
    IN  /\ Len(fromBox) # 0
        /\ ~(fromIdx = toIdx \/ IsFull(toBox))
        /\ (Len(toBox) = 0 \/ toBox[Len(toBox)] = fromBox[Len(fromBox)])

\* Faulty variant: the outer loop runs over toIdx, the inner one over fromIdx.
movesDestinationFirst(state) ==
    LET n     == Len(state.boxes)
        pairs == [k \in 1..(n * n) |-> Move((k - 1) % n, (k - 1) \div n)]
    IN  SelectSeq(pairs,
                  LAMBDA m : MoveIsPushed(state.boxes, m.fromBoxNumber, m.toBoxNumber))

\* get moves(): the pairs pushed, in the order the two nested loops visit
\* them (fromIdx ascending, toIdx ascending within one fromIdx).
moves(state) ==
    LET n     == Len(state.boxes)
        pairs == [k \in 1..(n * n) |-> Move((k - 1) \div n, (k - 1) % n)]
    IN  SelectSeq(pairs,
                  LAMBDA m : MoveIsPushed(state.boxes, m.fromBoxNumber, m.toBoxNumber))

\* Faulty variant: Array.prototype.shift, which takes the first ball away.
Shift(box) == IF box = <<>> THEN <<>> ELSE Tail(box)

\* Array.prototype.pop on a box: the box without its last ball (an empty box
\* stays empty) ...
Pop(box) == IF box = <<>> THEN <<>> ELSE SubSeq(box, 1, Len(box) - 1)

\* Faulty variant: the ball pushed is a copy of the bottom ball of the source.
PoppedBottom(box) == IF box = <<>> THEN "undefined" ELSE box[1]

\* ... and the value pop returns: the last ball, or undefined.
Popped(box) == IF box = <<>> THEN "undefined" ELSE box[Len(box)]

\* applyMove(move): copies the boxes, pops the source, pushes onto the
\* destination (the push sees the pop when both are the same box) and
\* constructs a State from the copy.  A box number outside the array makes
\* newBoxes[...] undefined, and the call on it throws a TypeError.
applyMove(state, move) ==
    LET n        == Len(state.boxes)
        f        == move.fromBoxNumber + 1
        t        == move.toBoxNumber + 1
        ball     == Popped(state.boxes[f])
        afterPop == [state.boxes EXCEPT ![f] = Pop(@)]
        newBoxes == [afterPop EXCEPT ![t] = Append(@, ball)]
    IN  IF f \notin 1..n \/ t \notin 1..n
        THEN Thrown("TypeError", "undefined")
        ELSE State(newBoxes)

\* box.join(""): the code units of the balls, one after the other.
RECURSIVE Join(_)
Join(box) ==
    IF box = <<>> THEN <<>> ELSE CodeUnits(Head(box)) \o Join(Tail(box))

\* toList()
toList(state) == [i \in 1..Len(state.boxes) |-> Join(state.boxes[i])]

\* fromTopDown(boxes) of the box version: a State of copies of the boxes,
\* each in the order it was given.
fromTopDown(boxes) == State(boxes)

\* Array.prototype.reverse
Reverse(seq) == [i \in 1..Len(seq) |-> seq[Len(seq) + 1 - i]]

\* fromTopDown(tubes) of the tube version: a State of reversed copies.
fromTopDownTubes(tubes) == State([i \in 1..Len(tubes) |-> Reverse(tubes[i])])

\* The one element of a singleton set.  TLC evaluates an operator argument
\* anew at each use when it evaluates ENABLED, and an element bound in {e}
\* once: The({F(x) : x \in {e}}) is F(e) with e evaluated once.
The(S) == CHOOSE x \in S : TRUE

\* The order of Array.prototype.sort without a comparator: strings compare
\* by UTF-16 code units, a proper prefix before the longer string.
StringLess(a, b) ==
    \E k \in 1..Len(b) :
        /\ \A j \in 1..(k - 1) : j <= Len(a) /\ a[j] = b[j]
        /\ (k > Len(a) \/ a[k] < b[k])

\* Inserting one string into a sorted list, after the strings that are not
\* greater.
Insert(str, sorted) ==
    LET p == Cardinality({k \in 1..Len(sorted) : ~StringLess(str, sorted[k])})
    IN  SubSeq(sorted, 1, p) \o <<str>> \o SubSeq(sorted, p + 1, Len(sorted))

\* Faulty variant: the list is left in the order of the boxes.
Unsorted(strings) == strings

\* Array.prototype.sort() on a list of strings.
RECURSIVE Sort(_)
Sort(strings) ==
    IF strings = <<>> THEN <<>>
    ELSE The({Insert(first, rest) :
                first \in {Head(strings)}, rest \in {Sort(Tail(strings))}})

\* Faulty variant: the elements one after the other, without quotes and
\* commas.
RECURSIVE JSONElementsBare(_)
JSONElementsBare(strings) ==
    IF strings = <<>> THEN <<>>
    ELSE Head(strings) \o JSONElementsBare(Tail(strings))

\* The elements of a JSON array of strings: each between double quotes (34),
\* a comma (44) between two.  Color codes hold nothing JSON escapes.
RECURSIVE JSONElements(_)
JSONElements(strings) ==
    IF strings = <<>> THEN <<>>
    ELSE <<34>> \o Head(strings) \o <<34>>
         \o (IF Tail(strings) = <<>> THEN <<>> ELSE <<44>>)
         \o JSONElements(Tail(strings))

\* JSON.stringify of an array of strings: [ (91), the elements, ] (93).
JSONStringify(strings) == <<91>> \o JSONElements(strings) \o <<93>>

\* canonicalKey()
canonicalKey(state) ==
    The({JSONStringify(sorted) :
            sorted \in {Sort(list) : list \in {toList(state)}}})

\* Faulty variant: the two lists are compared without sorting them.
equivalentToInOrder(state, other) ==
    JSONStringify(toList(state)) = JSONStringify(toList(other))

\* equivalentTo(other)
equivalentTo(state, other) ==
    \E sortedThis \in {Sort(list) : list \in {toList(state)}} :
        \E sortedOther \in {Sort(list) : list \in {toList(other)}} :
            JSONStringify(sortedThis) = JSONStringify(sortedOther)

-----------------------------------------------------------------------------
(* solve *)

\* moves: Move[] | null
Null == [null |-> TRUE]

MoveList(path) == [list |-> path]

\* The promise of solve before it resolves.
NoResult == [pending |-> TRUE]

\* No [state, path] is held (solve is not suspended at the await).
NoEntry == <<>>

\* No second call of solve has been made.
NoCall == [pc |-> "none"]

\* No PuzzleBuilder is mounted.
NoBuilder == [mounted |-> FALSE]

\* performance.now() - startTime, in seconds, at a return: the model draws it
\* from 0..MaxElapsed.
MaxElapsed == 1

\* The batch size: processed % 1000 === 0 reports progress and yields.
BatchSize == 1000

\* Faulty variant: the already solved initialState is answered like an unsolvable one.
AlreadySolvedResultNull(initial) ==
    [finalState |-> initial,
     moves      |-> Null,
     stats      |-> [totalTime |-> 0, statesProcessed |-> 0, solutionLength |-> 0]]

\* The return of an already solved initialState.
AlreadySolvedResult(initial) ==
    [finalState |-> initial,
     moves      |-> MoveList(<<>>),
     stats      |-> [totalTime |-> 0, statesProcessed |-> 0, solutionLength |-> 0]]

\* Faulty variant: a solve whose clock has advanced returns no moves.
FoundResultTimedOut(newState, newPath, nProcessed, totalTime) ==
    [finalState |-> newState,
     moves      |-> IF totalTime > 0 THEN Null ELSE MoveList(newPath),
     stats      |-> [totalTime       |-> totalTime,
                     statesProcessed |-> nProcessed,
                     solutionLength  |-> Len(newPath)]]

\* Faulty variant: statesProcessed leaves out the state being expanded.
FoundResultBeforeCurrent(newState, newPath, nProcessed, totalTime) ==
    [finalState |-> newState,
     moves      |-> MoveList(newPath),
     stats      |-> [totalTime       |-> totalTime,
                     statesProcessed |-> nProcessed - 1,
                     solutionLength  |-> Len(newPath)]]

\* Faulty variant: solutionLength is taken from path, not from newPath.
FoundResultOldPath(newState, newPath, nProcessed, totalTime) ==
    [finalState |-> newState,
     moves      |-> MoveList(newPath),
     stats      |-> [totalTime       |-> totalTime,
                     statesProcessed |-> nProcessed,
                     solutionLength  |-> Len(newPath) - 1]]

\* The return inside the loop, when newState is solved.
FoundResult(newState, newPath, nProcessed, totalTime) ==
    [finalState |-> newState,
     moves      |-> MoveList(newPath),
     stats      |-> [totalTime       |-> totalTime,
                     statesProcessed |-> nProcessed,
                     solutionLength  |-> Len(newPath)]]

\* Faulty variant: statesProcessed is taken from queue.length, not from processed.
UnsolvableResultQueueLength(initial, nProcessed, totalTime) ==
    [finalState |-> initial,
     moves      |-> Null,
     stats      |-> [totalTime       |-> totalTime,
                     statesProcessed |-> 0,
                     solutionLength  |-> 0]]

\* The return after the loop, when the queue has emptied.
UnsolvableResult(initial, nProcessed, totalTime) ==
    [finalState |-> initial,
     moves      |-> Null,
     stats      |-> [totalTime       |-> totalTime,
                     statesProcessed |-> nProcessed,
                     solutionLength  |-> 0]]

\* visited.has(canonicalKey)
IsVisited(vis, key) == key \in vis

\* Faulty variant: the loop ends with one entry left in the queue.
WhileConditionOffByOne(q) == Len(q) > 1

\* queue.length > 0, the condition of the while loop.
WhileCondition(q) == Len(q) > 0

\* Faulty variant: queue.unshift, which makes the queue a stack.
PushFront(q, newState, newPath) == <<<<newState, newPath>>>> \o q

\* queue.push([newState, newPath])
Push(q, newState, newPath) == Append(q, <<newState, newPath>>)

\* Faulty variant: the awaited promise is never resolved.
TimerNeverResolves == FALSE

\* setTimeout(resolve, 0): the timer resolves the awaited promise.
TimerResolves == TRUE

\* Faulty variant: [move, ...path]
NewPathPrepended(path, move) == <<move>> \o path

\* const newPath = [...path, move]
NewPath(path, move) == Append(path, move)

\* Faulty variant: the state is pushed with path, not with newPath.
VisitOldPath(loop, path, move, newState, key) ==
    IF IsVisited(loop.visited, key) THEN loop
    ELSE IF solved(newState)
    THEN [loop EXCEPT !.visited = @ \cup {key},
                      !.found = <<newState, NewPath(path, move)>>]
    ELSE [loop EXCEPT !.visited = @ \cup {key},
                      !.queue = Push(@, newState, path)]

\* The body of the for loop for one move, with newState and its
\* canonicalKey: loop holds the queue, the visited set and, once a solved
\* newState has made the loop return, that state with its path.
Visit(loop, path, move, newState, key) ==
    IF IsVisited(loop.visited, key) THEN loop
    ELSE IF solved(newState)
    THEN [loop EXCEPT !.visited = @ \cup {key},
                      !.found = <<newState, NewPath(path, move)>>]
    ELSE [loop EXCEPT !.visited = @ \cup {key},
                      !.queue = Push(@, newState, NewPath(path, move))]

\* The for loop over state.moves, from the moves still to visit.
RECURSIVE ForMoves(_, _, _, _)
ForMoves(state, path, todo, loop) ==
    IF todo = <<>> \/ loop.found # <<>> THEN loop
    ELSE The({ForMoves(state, path, rest, next) :
                rest \in {Tail(todo)},
                next \in {Visit(loop, path, Head(todo), newState, key) :
                            <<newState, key>> \in
                                {<<ns, canonicalKey(ns)>> :
                                    ns \in {applyMove(state, Head(todo))}}}})

\* The for loop on the dequeued [state, path]: the queue and the visited
\* set it leaves, and found, the solved state and its path when it returned
\* from inside the loop.
Expand(state, path, q, vis) ==
    The({ForMoves(state, path, todo, [queue |-> q, visited |-> vis, found |-> <<>>]) :
            todo \in {moves(state)}})

-----------------------------------------------------------------------------
(* solve as a function: what one call returns when nothing else runs *)

\* The locals of solve before the first test of the while condition.
LoopStart(initial) ==
    [queue     |-> <<<<initial, <<>>>>>>,
     visited   |-> {canonicalKey(initial)},
     found     |-> <<>>,
     processed |-> 0]

\* The while loop has ended: solve has returned from inside it, or the
\* queue is empty.
LoopEnded(loop) == loop.found # <<>> \/ ~WhileCondition(loop.queue)

\* One iteration of the while loop on the locals; none once it has returned
\* from inside the loop or the queue is empty.
LoopStep(loop) ==
    IF LoopEnded(loop) THEN loop
    ELSE The({[queue     |-> e.queue,
               visited   |-> e.visited,
               found     |-> e.found,
               processed |-> loop.processed + 1] :
                e \in {Expand(Head(loop.queue)[1], Head(loop.queue)[2],
                              Tail(loop.queue), loop.visited)}})

\* The loop runs for at most 2^MaxDoublings iterations in the model.
MaxDoublings == 11

\* 2^k iterations of the while loop, as two times 2^(k-1) of them; none
\* once the loop has ended.
RECURSIVE LoopSteps(_, _)
LoopSteps(loop, k) ==
    IF LoopEnded(loop) THEN loop
    ELSE IF k = 0 THEN LoopStep(loop)
    ELSE The({LoopSteps(half, k - 1) : half \in {LoopSteps(loop, k - 1)}})

\* solve(initialState) from its call to its return: the SolveResult but for
\* stats.totalTime, which the clock gives.
solveAlone(initial, totalTime) ==
    IF solved(initial) THEN AlreadySolvedResult(initial)
    ELSE The({IF loop.found # <<>>
              THEN FoundResult(loop.found[1], loop.found[2], loop.processed, totalTime)
              ELSE UnsolvableResult(initial, loop.processed, totalTime) :
                loop \in {LoopSteps(LoopStart(initial), MaxDoublings)}})

\* How often that call awaits the timer: once for each multiple of the batch
\* size that processed reaches.
YieldsOf(r) == r.stats.statesProcessed \div BatchSize

-----------------------------------------------------------------------------
(* The inputs of the model *)

\* The colors the bounded inputs are built from.
Colors == {"Re", "Ye"}

\* The sum of the first k of the lengths.
RECURSIVE SumTo(_, _)
SumTo(lengths, k) == IF k = 0 THEN 0 ELSE lengths[k] + SumTo(lengths, k - 1)

\* The boxes of the given lengths that hold balls, one box after the other.
Split(balls, lengths) ==
    [i \in 1..Len(lengths) |->
        SubSeq(balls, SumTo(lengths, i - 1) + 1, SumTo(lengths, i))]

\* s is the State of a box array of at most MaxBoxes boxes, MaxLen balls a
\* box and MaxBalls balls in all, of the colors of Colors.
IsBoundedState(s) ==
    \E n \in 0..MaxBoxes : \E lengths \in [1..n -> 0..MaxLen] :
        /\ SumTo(lengths, n) <= MaxBalls
        /\ \E balls \in [1..SumTo(lengths, n) -> Colors] :
             s = State(Split(balls, lengths))

\* How many balls of color c the state holds.
NumberOf(state, c) == Len(SelectSeq(Balls(state.boxes), LAMBDA ball : ball = c))

\* Spec: solve is called on the bounded states that hold whole sets of four
\* balls, at most one set of each color.  None of them takes BatchSize
\* dequeues.
IsSolveInput(s) ==
    /\ IsBoundedState(s)
    /\ Len(Balls(s.boxes)) % 4 = 0
    /\ \A c \in Colors : NumberOf(s, c) <= 4

\* SpecYield: two inputs that take more than BatchSize dequeues.  The first
\* holds three DB balls and is unsolvable after 1011 dequeues, the second is
\* solved in 14 moves after 2002 dequeues.
LargeInputs ==
    {State(<< <<"Ye", "Re", "DB", "Re">>, <<"Ye", "DB", "BG", "BG">>,
               <<"DB", "Re", "Ye", "BG">>, <<"BG", "Re", "Ye">>, <<>>, <<>> >>),
     State(<< <<"BG", "Re", "DB", "DB">>, <<"Ye", "DB", "BG", "Re">>,
               <<"BG", "BG", "Ye", "Ye">>, <<"Re", "DB", "Ye", "Re">>,
               <<>>, <<>>, <<>> >>)}

\* No State is under test while solve runs.
NoState == State(<<>>)

-----------------------------------------------------------------------------
(* solve as a state machine *)

\* No object, no result of a call.
NoObject == [none |-> TRUE]

\* Nothing is allocated and no second State is given.
HeapUnused ==
    /\ builder = NoBuilder
    /\ otherState = NoState
    /\ heap = <<>>
    /\ callerBoxes = 0
    /\ object = NoObject
    /\ returned = NoObject
    /\ last = [op |-> "none"]

\* The locals and the promise of a solve that has not run yet.
SolveNotStarted ==
    /\ queue = <<>>
    /\ visited = {}
    /\ processed = 0
    /\ cur = NoEntry
    /\ reports = <<>>
    /\ yields = 0
    /\ result = NoResult
    /\ previous = NoResult
    /\ second = NoCall

\* solve has been called on a bounded input, without a progressCallback
\* (no batch completes, so none would be called).
Init ==
    /\ st = NoState
    /\ IsSolveInput(initialState)
    /\ progressCallback = FALSE
    /\ pc = "called"
    /\ SolveNotStarted
    /\ HeapUnused

\* solve has been called on a large input, with a progressCallback or
\* without one.
InitYield ==
    /\ st = NoState
    /\ initialState \in LargeInputs
    /\ progressCallback \in BOOLEAN
    /\ pc = "called"
    /\ SolveNotStarted
    /\ HeapUnused

\* Faulty variant: visited starts empty, without the key of initialState.
SolveCallVisitedEmpty ==
    /\ pc = "called"
    /\ IF solved(initialState)
       THEN /\ pc' = "done"
            /\ result' = AlreadySolvedResult(initialState)
            /\ UNCHANGED <<queue, visited>>
       ELSE /\ pc' = "loop"
            /\ queue' = <<<<initialState, <<>>>>>>
            /\ visited' = {}
            /\ result' = result
    /\ UNCHANGED <<st, initialState, progressCallback, processed, cur, reports, yields>>
    /\ UNCHANGED <<previous, second, builder, otherState, heapVars>>

\* The call of solve up to the while loop.
SolveCall ==
    /\ pc = "called"
    /\ IF solved(initialState)
       THEN /\ pc' = "done"
            /\ result' = AlreadySolvedResult(initialState)
            /\ UNCHANGED <<queue, visited>>
       ELSE /\ pc' = "loop"
            /\ queue' = <<<<initialState, <<>>>>>>
            /\ visited' = {canonicalKey(initialState)}
            /\ result' = result
    /\ UNCHANGED <<st, initialState, progressCallback, processed, cur, reports, yields>>
    /\ UNCHANGED <<previous, second, builder, otherState, heapVars>>

\* The rest of one loop iteration on [state, path], with q the queue after
\* the shift: the for loop, then either the return of a solution or the
\* next test of the while condition.
ExpandStep(state, path, q, nProcessed) ==
    \E e \in {Expand(state, path, q, visited)} :
        /\ queue' = e.queue
        /\ visited' = e.visited
        /\ cur' = NoEntry
        /\ IF e.found # <<>>
           THEN /\ pc' = "done"
                /\ \E elapsed \in 0..MaxElapsed :
                     result' = FoundResult(e.found[1], e.found[2], nProcessed, elapsed)
           ELSE /\ pc' = "loop"
                /\ result' = result

\* Faulty variant: a batch is ten states.
BatchCompleteAfterTen(n) == n % 10 = 0

\* processed % 1000 === 0: a batch is complete.
BatchComplete(n) == n % BatchSize = 0

\* One iteration of the while loop, up to the await when processed has
\* reached a multiple of the batch size, and to its end otherwise.
Iterate ==
    /\ pc = "loop"
    /\ WhileCondition(queue)
    /\ processed' = processed + 1
    /\ IF BatchComplete(processed')
       THEN /\ reports' = IF progressCallback
                          THEN Append(reports, <<processed', Len(Tail(queue))>>)
                          ELSE reports
            /\ yields' = yields + 1
            /\ cur' = Head(queue)
            /\ queue' = Tail(queue)
            /\ pc' = "yield"
            /\ UNCHANGED <<visited, result>>
       ELSE /\ ExpandStep(Head(queue)[1], Head(queue)[2], Tail(queue), processed')
            /\ UNCHANGED <<reports, yields>>
    /\ UNCHANGED <<st, initialState, progressCallback>>
    /\ UNCHANGED <<previous, second, builder, otherState, heapVars>>

\* The timer fires and the iteration goes on after the await.
Resume ==
    /\ pc = "yield"
    /\ TimerResolves
    /\ ExpandStep(cur[1], cur[2], queue, processed)
    /\ UNCHANGED <<st, initialState, progressCallback, processed, reports, yields>>
    /\ UNCHANGED <<previous, second, builder, otherState, heapVars>>

\* A loop that spins on the empty queue and never returns.
ExhaustedNeverReturns ==
    /\ pc = "loop"
    /\ ~WhileCondition(queue)
    /\ UNCHANGED vars

\* The return after the loop: the queue is empty.
Exhausted ==
    /\ pc = "loop"
    /\ ~WhileCondition(queue)
    /\ pc' = "done"
    /\ \E elapsed \in 0..MaxElapsed :
         result' = UnsolvableResult(initialState, processed, elapsed)
    /\ UNCHANGED <<st, initialState, progressCallback, queue, visited, processed,
                   cur, reports, yields>>
    /\ UNCHANGED <<previous, second, builder, otherState, heapVars>>

\* A solve that never completes a batch never awaits, so Resume is no step
\* of it.
Next == SolveCall \/ Iterate \/ Exhausted

Spec == Init /\ [][Next]_vars

NextYield == SolveCall \/ Iterate \/ Resume \/ Exhausted

SpecYield == InitYield /\ [][NextYield]_vars

\* Every input of Spec and of SpecYield, with the steps of solve never
\* postponed forever: JavaScript runs the synchronous part of an iteration
\* to its end, and the host runs the timer callback of each await.
FairSpec == (Init \/ InitYield) /\ [][NextYield]_vars /\ WF_vars(NextYield)

\* solve is called once more on the same initialState, with a
\* progressCallback or without one: the call has locals of its own, and the
\* SolveResult of the call before is kept.
SolveAgain ==
    /\ pc = "done"
    /\ previous = NoResult
    /\ previous' = result
    /\ progressCallback' \in BOOLEAN
    /\ pc' = "called"
    /\ queue' = <<>>
    /\ visited' = {}
    /\ processed' = 0
    /\ cur' = NoEntry
    /\ reports' = <<>>
    /\ yields' = 0
    /\ result' = NoResult
    /\ UNCHANGED <<st, initialState>>
    /\ UNCHANGED <<second, builder, otherState, heapVars>>

TwiceNext == SolveCall \/ Iterate \/ Resume \/ Exhausted \/ SolveAgain

\* Two calls of solve on one initialState, one after the other.
TwiceSpec == (Init \/ InitYield) /\ [][TwiceNext]_vars

\* The orders in which n boxes can be arranged.
BoxOrders(n) ==
    {p \in [1..n -> 1..n] : \A i, j \in 1..n : p[i] = p[j] => i = j}

\* The state whose box i is box p[i] of state.
Permuted(state, p) == State([i \in 1..Len(state.boxes) |-> state.boxes[p[i]]])

\* solve is called once more, on the boxes of initialState in another
\* order; the SolveResult of the call before is kept.
SolveAgainPermuted ==
    /\ pc = "done"
    /\ previous = NoResult
    /\ previous' = result
    /\ \E p \in BoxOrders(Len(initialState.boxes)) :
         initialState' = Permuted(initialState, p)
    /\ pc' = "called"
    /\ queue' = <<>>
    /\ visited' = {}
    /\ processed' = 0
    /\ cur' = NoEntry
    /\ reports' = <<>>
    /\ yields' = 0
    /\ result' = NoResult
    /\ UNCHANGED <<st, progressCallback>>
    /\ UNCHANGED <<second, builder, otherState, heapVars>>

PermutedNext == SolveCall \/ Iterate \/ Exhausted \/ SolveAgainPermuted

\* A call of solve on a bounded input, then one on a permutation of it.
PermutedSpec == Init /\ [][PermutedNext]_vars

-----------------------------------------------------------------------------
(* Two calls of solve in flight *)

\* A puzzle that is solved in 16 moves after 1009 dequeues: the call awaits
\* the timer once.
LongInput ==
    State(<< <<"DB", "Ye", "DB", "BG">>, <<"Ye", "Re", "Re", "Ye">>,
             <<"BG", "Re", "BG", "DB">>, <<"Re", "BG", "Ye", "DB">>,
             <<>>, <<>> >>)

\* The inputs of the second call: a puzzle solved in three moves, one that
\* cannot be solved, and a solved one.  None takes BatchSize dequeues.
SecondInputs ==
    {State(<< <<"Re", "Re", "Re", "Ye">>, <<"Ye", "Ye", "Ye", "Re">>, <<>>, <<>> >>),
     State(<< <<"Re", "Ye", "Ye", "Re">>, <<"Re", "Ye", "Ye", "Re">>, <<>> >>),
     State(<< <<"Re", "Re", "Re", "Re">>, <<>> >>)}

\* solve has been called, without a progressCallback, on LongInput or on
\* one of the inputs the second call takes.
InterleavedInit ==
    /\ st = NoState
    /\ initialState \in SecondInputs \cup {LongInput}
    /\ progressCallback = FALSE
    /\ pc = "called"
    /\ SolveNotStarted
    /\ HeapUnused

\* The locals of a second call on input, up to the first test of its while
\* condition, with the visited set it starts from.
SecondStarted(input, startVisited) ==
    IF solved(input)
    THEN [pc           |-> "done",
          initialState |-> input,
          loop         |-> LoopStart(input),
          result       |-> AlreadySolvedResult(input)]
    ELSE [pc           |-> "loop",
          initialState |-> input,
          loop         |-> [LoopStart(input) EXCEPT !.visited = startVisited],
          result       |-> NoResult]

\* Faulty variant: the second call adds to the visited set of the first.
SecondCallSharedVisited ==
    /\ second = NoCall
    /\ pc \in {"yield", "done"}
    /\ \E input \in SecondInputs :
         second' = SecondStarted(input, visited \cup {canonicalKey(input)})
    /\ UNCHANGED <<st, solveVars, builder, otherState, heapVars>>

\* solve is called a second time while the first call is suspended at its
\* await or has returned: no other code runs while the first call does.
\* The second call has a queue and a visited set of its own.
SecondCall ==
    /\ second = NoCall
    /\ pc \in {"yield", "done"}
    /\ \E input \in SecondInputs :
         second' = SecondStarted(input, {canonicalKey(input)})
    /\ UNCHANGED <<st, solveVars, builder, otherState, heapVars>>

\* One iteration of the while loop of the second call, or its return
\* after the loop.  An iteration that completes a batch would suspend the
\* call at its await; none of SecondInputs gets there.
SecondIterate ==
    /\ second.pc = "loop"
    /\ IF ~WhileCondition(second.loop.queue)
       THEN \E elapsed \in 0..MaxElapsed :
              second' = [second EXCEPT
                            !.pc = "done",
                            !.result = UnsolvableResult(second.initialState,
                                                        second.loop.processed, elapsed)]
       ELSE IF BatchComplete(second.loop.processed + 1)
       THEN second' = [second EXCEPT !.pc = "yield"]
       ELSE \E next \in {LoopStep(second.loop)} :
              IF next.found # <<>>
              THEN \E elapsed \in 0..MaxElapsed :
                     second' = [second EXCEPT
                                   !.pc = "done",
                                   !.loop = next,
                                   !.result = FoundResult(next.found[1], next.found[2],
                                                          next.processed, elapsed)]
              ELSE second' = [second EXCEPT !.loop = next]
    /\ UNCHANGED <<st, solveVars, builder, otherState, heapVars>>

\* The timer of the first call fires once the second call has run to its
\* return: its iterations are synchronous.
ResumeFirst ==
    /\ second.pc # "loop"
    /\ Resume

InterleavedNext ==
    \/ SolveCall
    \/ Iterate
    \/ ResumeFirst
    \/ Exhausted
    \/ SecondCall
    \/ SecondIterate

\* A call of solve, and a second call that runs while the first is
\* suspended or after it.
InterleavedSpec == InterleavedInit /\ [][InterleavedNext]_vars

-----------------------------------------------------------------------------
(* The State class under test *)

StateInit ==
    /\ IsBoundedState(st)
    /\ initialState = NoState
    /\ progressCallback = FALSE
    /\ pc = "idle"
    /\ SolveNotStarted
    /\ HeapUnused

\* st.applyMove(move) for a move of st.moves; the result is the next State
\* under test.
ApplyLegalMove ==
    /\ \E k \in 1..Len(moves(st)) : st' = applyMove(st, moves(st)[k])
    /\ UNCHANGED solveVars
    /\ UNCHANGED <<second, builder, otherState, heapVars>>

StateNext == ApplyLegalMove

StateSpec == StateInit /\ [][StateNext]_vars

\* Legal moves applied one after the other from an input of solve, which
\* initialState remembers.
WalkInit ==
    /\ IsSolveInput(st)
    /\ initialState = st
    /\ progressCallback = FALSE
    /\ pc = "idle"
    /\ SolveNotStarted
    /\ HeapUnused

WalkSpec == WalkInit /\ [][StateNext]_vars

-----------------------------------------------------------------------------
(* Two States, for canonicalKey and equivalentTo *)

\* PairSpec: each of the two States has at most this many boxes ...
MaxPairBoxes == 2
\* ... and at most this many balls.
MaxPairBalls == 3

\* s is the State of a box array of at most MaxPairBoxes boxes and
\* MaxPairBalls balls, of the colors of Colors.
IsPairState(s) ==
    \E n \in 0..MaxPairBoxes : \E lengths \in [1..n -> 0..MaxPairBalls] :
        /\ SumTo(lengths, n) <= MaxPairBalls
        /\ \E balls \in [1..SumTo(lengths, n) -> Colors] :
             s = State(Split(balls, lengths))

PairInit ==
    /\ IsPairState(st)
    /\ IsPairState(otherState)
    /\ initialState = NoState
    /\ progressCallback = FALSE
    /\ pc = "idle"
    /\ SolveNotStarted
    /\ builder = NoBuilder
    /\ heap = <<>>
    /\ callerBoxes = 0
    /\ object = NoObject
    /\ returned = NoObject
    /\ last = [op |-> "none"]

\* The second State is replaced by the State of its boxes with two of them
\* exchanged.
ExchangeBoxes ==
    /\ \E i, j \in 1..Len(otherState.boxes) :
         /\ i < j
         /\ otherState' = State([otherState.boxes EXCEPT ![i] = otherState.boxes[j],
                                                        ![j] = otherState.boxes[i]])
    /\ UNCHANGED <<st, solveVars, second, builder, heapVars>>

PairNext == ApplyLegalMove \/ ExchangeBoxes

PairSpec == PairInit /\ [][PairNext]_vars

-----------------------------------------------------------------------------
(* Arrays as objects: new State and applyMove on a heap of arrays *)

\* ObjectSpec: the caller passes at most this many boxes ...
MaxObjectBoxes == 3
\* ... of at most this many balls in all ...
MaxObjectBalls == 5
\* ... each ball one of these values, two of which are no color.
ObjectValues == {"Re", "XX", "Zz"}

\* An array of balls (Color[]) and an array of such arrays (Color[][]), as
\* they lie in the heap: the second holds the addresses of its elements.
BallArray(balls) == [balls |-> balls]

BoxArray(refs) == [refs |-> refs]

\* The heap h with one more array; its address is the new length.
Allocate(h, array) == Append(h, array)

\* The boxes the array of arrays at address a holds, as a value.
View(h, a) == [i \in 1..Len(h[a].refs) |-> h[h[a].refs[i]].balls]

\* Faulty variant: boxes.map(box => box), a new outer array of the same
\* inner arrays.
MapCopyShared(h, a) ==
    [heap |-> Allocate(h, BoxArray(h[a].refs)), address |-> Len(h) + 1]

\* boxes.map(box => [...box]): a new array for each box, then a new outer
\* array of them.  The result is the heap after it and the address of the
\* outer array.
MapCopy(h, a) ==
    LET n == Len(h[a].refs)
    IN  [heap    |-> h \o [i \in 1..n |-> BallArray(h[h[a].refs[i]].balls)]
                       \o <<BoxArray([i \in 1..n |-> Len(h) + i])>>,
         address |-> Len(h) + n + 1]

\* new State(boxes) with boxes the array at address a: the heap after it,
\* and the object constructed or the error validate throws.
NewState(h, a) ==
    LET copy == MapCopy(h, a)
        bad  == validate(View(copy.heap, copy.address))
    IN  [heap   |-> copy.heap,
         object |-> IF bad # <<>> THEN Thrown("Invalid color", bad[1])
                    ELSE [boxes |-> copy.address]]

\* The pop, the push and the new State of applyMove, on the array of arrays
\* at address a of h.
MoveInArrays(h, a, move) ==
    LET newBoxes  == h[a].refs
        f         == move.fromBoxNumber + 1
        t         == move.toBoxNumber + 1
        ball      == Popped(h[newBoxes[f]].balls)
        afterPop  == [h EXCEPT ![newBoxes[f]] = BallArray(Pop(@.balls))]
        afterPush == [afterPop EXCEPT ![newBoxes[t]] = BallArray(Append(@.balls, ball))]
    IN  IF f \notin 1..Len(newBoxes)
        THEN [heap |-> h, object |-> Thrown("TypeError", "undefined")]
        ELSE IF t \notin 1..Len(newBoxes)
        THEN [heap |-> afterPop, object |-> Thrown("TypeError", "undefined")]
        ELSE NewState(afterPush, a)

\* Faulty variant: newBoxes = this.boxes, the move is made in the arrays of
\* the receiver.
applyMoveInPlace(h, receiver, move) == MoveInArrays(h, receiver.boxes, move)

\* receiver.applyMove(move) on the heap h: the heap after it, and the State
\* returned or the error thrown.
applyMoveOnHeap(h, receiver, move) ==
    LET copy == MapCopy(h, receiver.boxes)
    IN  MoveInArrays(copy.heap, copy.address, move)

\* array[i].push(v), array[i].pop() and array.push([]) on the array of
\* arrays at address a, as any code that holds the array can do.
PushBall(h, a, i, v) == [h EXCEPT ![h[a].refs[i]] = BallArray(Append(@.balls, v))]

PopBall(h, a, i) == [h EXCEPT ![h[a].refs[i]] = BallArray(Pop(@.balls))]

PushBox(h, a) ==
    [Allocate(h, BallArray(<<>>)) EXCEPT ![a] = BoxArray(Append(@.refs, Len(h) + 1))]

\* The caller has built an array of boxes; no State is constructed yet.
ObjectInit ==
    /\ st = NoState
    /\ initialState = NoState
    /\ progressCallback = FALSE
    /\ pc = "idle"
    /\ SolveNotStarted
    /\ builder = NoBuilder
    /\ otherState = NoState
    /\ \E n \in 0..MaxObjectBoxes : \E lengths \in [1..n -> 0..MaxObjectBalls] :
         /\ SumTo(lengths, n) <= MaxObjectBalls
         /\ \E balls \in [1..SumTo(lengths, n) -> ObjectValues] :
              /\ heap = [i \in 1..n |-> BallArray(Split(balls, lengths)[i])]
                            \o <<BoxArray([i \in 1..n |-> i])>>
              /\ callerBoxes = n + 1
    /\ object = NoObject
    /\ returned = NoObject
    /\ last = [op |-> "allocate"]

\* object = new State(callerBoxes)
Construct ==
    /\ last.op = "allocate"
    /\ \E r \in {NewState(heap, callerBoxes)} :
         /\ heap' = r.heap
         /\ object' = r.object
    /\ last' = [op |-> "construct"]
    /\ UNCHANGED <<st, solveVars, second, builder, otherState, callerBoxes, returned>>

\* A State has been constructed and nothing was done since.
Constructed == last.op = "construct" /\ ~IsThrown(object)

\* The caller goes on using the array it passed to the constructor.
CallerPush ==
    /\ Constructed
    /\ \E i \in 1..Len(heap[callerBoxes].refs) : \E v \in ObjectValues :
         heap' = PushBall(heap, callerBoxes, i, v)
    /\ last' = [op |-> "caller"]
    /\ UNCHANGED <<st, solveVars, second, builder, otherState, callerBoxes, object, returned>>

CallerPop ==
    /\ Constructed
    /\ \E i \in 1..Len(heap[callerBoxes].refs) :
         heap' = PopBall(heap, callerBoxes, i)
    /\ last' = [op |-> "caller"]
    /\ UNCHANGED <<st, solveVars, second, builder, otherState, callerBoxes, object, returned>>

CallerPushBox ==
    /\ Constructed
    /\ heap' = PushBox(heap, callerBoxes)
    /\ last' = [op |-> "caller"]
    /\ UNCHANGED <<st, solveVars, second, builder, otherState, callerBoxes, object, returned>>

\* Some code writes to the public field boxes of the State.
StatePush ==
    /\ Constructed
    /\ \E i \in 1..Len(heap[object.boxes].refs) : \E v \in ObjectValues :
         heap' = PushBall(heap, object.boxes, i, v)
    /\ last' = [op |-> "state"]
    /\ UNCHANGED <<st, solveVars, second, builder, otherState, callerBoxes, object, returned>>

StatePop ==
    /\ Constructed
    /\ \E i \in 1..Len(heap[object.boxes].refs) :
         heap' = PopBall(heap, object.boxes, i)
    /\ last' = [op |-> "state"]
    /\ UNCHANGED <<st, solveVars, second, builder, otherState, callerBoxes, object, returned>>

StatePushBox ==
    /\ Constructed
    /\ heap' = PushBox(heap, object.boxes)
    /\ last' = [op |-> "state"]
    /\ UNCHANGED <<st, solveVars, second, builder, otherState, callerBoxes, object, returned>>

\* returned = object.applyMove(move), for a move between two box numbers of
\* the State or the first number past them.
ApplyMove ==
    /\ Constructed
    /\ \E s, d \in 0..Len(heap[object.boxes].refs) :
         \E r \in {applyMoveOnHeap(heap, object, Move(s, d))} :
            /\ heap' = r.heap
            /\ returned' = r.object
            /\ last' = [op |-> "applyMove", move |-> Move(s, d)]
    /\ UNCHANGED <<st, solveVars, second, builder, otherState, callerBoxes, object>>

ObjectNext ==
    \/ Construct
    \/ CallerPush
    \/ CallerPop
    \/ CallerPushBox
    \/ StatePush
    \/ StatePop
    \/ StatePushBox
    \/ ApplyMove

ObjectSpec == ObjectInit /\ [][ObjectNext]_vars

-----------------------------------------------------------------------------
(* The PuzzleBuilder component *)

\* COLOR_MAP: the codes of the palette, in its order.
COLOR_MAP ==
    <<"Re", "Or", "Ye", "LG", "BG", "DG", "Cy", "LB",
      "DB", "Pu", "Ma", "Pi", "Wh", "Gr", "Bl">>

\* selectedColor: Color | null
NoColor == "null"

\* No setTimeout callback is pending.
NoTimer == [pending |-> FALSE]

\* The text of the JSON textarea, by what JSON.parse makes of it: an array
\* of arrays of strings, a value of another shape, or a SyntaxError.
JSONstringify(boxes) == [array |-> boxes]

NotBoxesJson == [object |-> TRUE]

InvalidJson == [invalid |-> TRUE]

IsBoxesJson(text) == "array" \in DOMAIN text

\* The component holds arrays of boxes (boxes, animationBoxes, the arrays
\* its timer callbacks have captured) as sequences of addresses of ball
\* arrays; b.arrays holds the ball arrays by address.  The value of such an
\* array of boxes:
BoxesOf(b, refs) == [i \in 1..Len(refs) |-> b.arrays[refs[i]]]

\* colorCounts: the number of balls of each color that occurs in boxes.
colorCounts(boxes) ==
    LET balls == Balls(boxes)
    IN  [color \in {balls[i] : i \in 1..Len(balls)} |->
            Cardinality({i \in 1..Len(balls) : balls[i] = color})]

\* colorCounts[color] || 0
CountOf(counts, color) == IF color \in DOMAIN counts THEN counts[color] ELSE 0

\* Faulty variant: the lengths of the boxes are not looked at.
isValidStateColorsOnly(counts, boxes) ==
    LET usedColors == DOMAIN counts
    IN  usedColors # {} /\ \A color \in usedColors : counts[color] = 4

\* isValidState: 4 of each color used, boxes either full or empty.
isValidState(counts, boxes) ==
    LET usedColors     == DOMAIN counts
        hasValidColors == usedColors # {} /\ \A color \in usedColors : counts[color] = 4
        hasValidBoxes  == \A i \in 1..Len(boxes) : Len(boxes[i]) = 0 \/ Len(boxes[i]) = 4
    IN  hasValidColors /\ hasValidBoxes

\* setBoxes(refs) and the render that follows: boxes is a new array, so
\* both useMemo hooks compute colorCounts and isValidState anew.  No other
\* render does: their dependencies are the array boxes, not its contents.
setBoxes(b, refs) ==
    The({[b EXCEPT !.boxes = refs,
                   !.colorCounts = counts,
                   !.isValidState = isValidState(counts, values)] :
            <<values, counts>> \in
                {<<v, colorCounts(v)>> : v \in {BoxesOf(b, refs)}}})

\* The effect that selects the first color of COLOR_MAP with fewer than 4
\* balls when the selected color has 4 or more.
autoSelect(b) ==
    IF b.selectedColor # NoColor /\ CountOf(b.colorCounts, b.selectedColor) >= 4
    THEN LET available == SelectSeq(COLOR_MAP, LAMBDA code : CountOf(b.colorCounts, code) < 4)
         IN  [b EXCEPT !.selectedColor =
                 IF available = <<>> THEN NoColor ELSE Head(available)]
    ELSE b

\* The addresses of seq, each once, in the order of their first occurrence.
RECURSIVE Firsts(_, _)
Firsts(seq, seen) ==
    IF seq = <<>> THEN <<>>
    ELSE IF Head(seq) \in seen THEN Firsts(Tail(seq), seen)
    ELSE <<Head(seq)>> \o Firsts(Tail(seq), seen \cup {Head(seq)})

\* The ball arrays nothing refers to any more are collected, and the rest
\* are numbered in the order in which the component refers to them.
Collected(b) ==
    LET held  == b.boxes \o b.animationBoxes
                 \o (IF b.solveTimer.pending THEN b.solveTimer.boxes ELSE <<>>)
                 \o (IF b.animationTimer.pending THEN b.animationTimer.currentBoxes ELSE <<>>)
        order == Firsts(held, {})
        new   == [a \in {order[i] : i \in 1..Len(order)} |->
                     CHOOSE i \in 1..Len(order) : order[i] = a]
        Moved(refs) == [i \in 1..Len(refs) |-> new[refs[i]]]
    IN  [b EXCEPT !.arrays = [i \in 1..Len(order) |-> b.arrays[order[i]]],
                  !.boxes = Moved(b.boxes),
                  !.animationBoxes = Moved(b.animationBoxes),
                  !.solveTimer = IF b.solveTimer.pending
                                 THEN [@ EXCEPT !.boxes = Moved(b.solveTimer.boxes)]
                                 ELSE @,
                  !.animationTimer = IF b.animationTimer.pending
                                     THEN [@ EXCEPT !.currentBoxes =
                                              Moved(b.animationTimer.currentBoxes)]
                                     ELSE @]

\* The component after the named handler has run: rendered, its effect
\* run.
Rendered(b, handler) == [Collected(autoSelect(b)) EXCEPT !.handled = handler]

\* The arrays of b with n new empty arrays, at the addresses after the last.
WithEmpty(arrays, n) == arrays \o [j \in 1..n |-> <<>>]

\* The number of empty boxes among refs.
EmptyCount(arrays, refs) == Cardinality({i \in 1..Len(refs) : arrays[refs[i]] = <<>>})

\* handleBoxClick(boxIndex)
handleBoxClick(b, boxIndex) ==
    IF b.selectedColor = NoColor \/ CountOf(b.colorCounts, b.selectedColor) >= 4 THEN b
    ELSE LET box      == b.arrays[b.boxes[boxIndex + 1]]
             added    == IF Len(box) < 4
                         THEN [arrays |-> Append(b.arrays, Append(box, b.selectedColor)),
                               boxes  |-> [b.boxes EXCEPT ![boxIndex + 1] = Len(b.arrays) + 1]]
                         ELSE [arrays |-> b.arrays, boxes |-> b.boxes]
             newBoxes == IF EmptyCount(added.arrays, added.boxes) < 2
                         THEN [arrays |-> WithEmpty(added.arrays, 1),
                               boxes  |-> Append(added.boxes, Len(added.arrays) + 1)]
                         ELSE added
             after    == [b EXCEPT !.arrays = newBoxes.arrays]
         IN  setBoxes([after EXCEPT !.puzzleJson =
                          JSONstringify(BoxesOf(after, newBoxes.boxes))],
                      newBoxes.boxes)

\* clearAll: Array(boxCount).fill([]) puts one empty array in every box.
clearAll(b) ==
    LET after      == [b EXCEPT !.arrays = WithEmpty(b.arrays, 1)]
        emptyBoxes == [i \in 1..b.boxCount |-> Len(b.arrays) + 1]
    IN  [setBoxes(after, emptyBoxes) EXCEPT
            !.puzzleJson = JSONstringify(BoxesOf(after, emptyBoxes)),
            !.selectedColor = "Re",
            !.solveResult = Null,
            !.animationBoxes = <<>>,
            !.isPlaying = FALSE,
            !.currentMoveIndex = 0,
            !.animationTimer = NoTimer]

\* handleBoxCountChange(newCount).  emptyCount is a const: the for loop,
\* whose condition holds emptyCount < 2, runs over every box once it runs.
handleBoxCountChange(b, newCount) ==
    LET prev     == b.boxes
        n        == Len(b.arrays)
        sliced   == SubSeq(prev, 1, newCount)
        emptyCount == EmptyCount(b.arrays, sliced)
        newBoxes ==
            IF newCount > Len(prev)
            THEN [arrays |-> WithEmpty(b.arrays, newCount - Len(prev)),
                  boxes  |-> prev \o [j \in 1..(newCount - Len(prev)) |-> n + j]]
            ELSE IF newCount < Len(prev)
            THEN IF emptyCount < 2
                 THEN [arrays |-> WithEmpty(b.arrays, newCount),
                       boxes  |-> [i \in 1..newCount |->
                                     IF Len(b.arrays[sliced[i]]) > 0
                                     THEN n + i ELSE sliced[i]]]
                 ELSE [arrays |-> b.arrays, boxes |-> sliced]
            ELSE [arrays |-> b.arrays, boxes |-> prev]
        after    == [b EXCEPT !.arrays = newBoxes.arrays, !.boxCount = newCount]
    IN  setBoxes([after EXCEPT !.puzzleJson =
                     JSONstringify(BoxesOf(after, newBoxes.boxes))],
                 newBoxes.boxes)

\* JSON.parse(puzzleJson) when it gives an array of arrays: every array of
\* it is a new one.
Parsed(b) ==
    LET parsed == b.puzzleJson.array
    IN  [arrays |-> b.arrays \o parsed,
         boxes  |-> [i \in 1..Len(parsed) |-> Len(b.arrays) + i]]

\* loadFromJson
loadFromJson(b) ==
    IF ~IsBoxesJson(b.puzzleJson) THEN b
    ELSE LET parsed == Parsed(b)
         IN  [setBoxes([b EXCEPT !.arrays = parsed.arrays], parsed.boxes) EXCEPT
                 !.boxCount = Len(parsed.boxes),
                 !.solveResult = Null,
                 !.animationBoxes = <<>>,
                 !.isPlaying = FALSE,
                 !.currentMoveIndex = 0,
                 !.animationTimer = NoTimer]

\* handleSolve, up to the setTimeout: the callback holds initialState and
\* the boxes of this render.  fromTopDown throws on an invalid color, and
\* the catch block ends the loading.
handleSolve(b) ==
    IF ~b.isValidState THEN b
    ELSE LET initial == fromTopDown(BoxesOf(b, b.boxes))
         IN  IF IsThrown(initial)
             THEN [b EXCEPT !.isLoading = FALSE, !.solveResult = Null]
             ELSE [b EXCEPT !.isLoading = TRUE,
                            !.solveResult = Null,
                            !.solveTimer = [pending      |-> TRUE,
                                            initialState |-> initial,
                                            boxes        |-> b.boxes]]

\* The callback of that setTimeout, from await solve(initialState, ...) on,
\* with the SolveResult that solve resolved with.
solveResolved(b, solveResult) ==
    [b EXCEPT !.solveResult = solveResult,
              !.animationBoxes = b.solveTimer.boxes,
              !.currentMoveIndex = 0,
              !.isLoading = FALSE,
              !.solveTimer = NoTimer]

\* playNextMove(moveIndex, currentBoxes) of a playAnimation whose render
\* held the given moves: pop and push change the ball arrays of
\* currentBoxes themselves, newBoxes being a copy of the outer array only.
\* A move from or to a box that currentBoxes does not have throws a
\* TypeError, which ends the call there.
playNextMove(b, moveIndex, currentBoxes, moveList) ==
    IF moveIndex >= Len(moveList) THEN [b EXCEPT !.isPlaying = FALSE]
    ELSE LET move      == moveList[moveIndex + 1]
             newBoxes  == currentBoxes
             from      == newBoxes[move.fromBoxNumber + 1]
             to        == newBoxes[move.toBoxNumber + 1]
             ball      == Popped(b.arrays[from])
             afterPop  == [b.arrays EXCEPT ![from] = Pop(@)]
             afterPush == [afterPop EXCEPT ![to] = Append(@, ball)]
         IN  IF move.fromBoxNumber + 1 \notin 1..Len(newBoxes)
             THEN b
             ELSE IF move.toBoxNumber + 1 \notin 1..Len(newBoxes)
             THEN [b EXCEPT !.arrays = afterPop]
             ELSE [b EXCEPT !.arrays = afterPush,
                            !.animationBoxes = newBoxes,
                            !.currentMoveIndex = moveIndex + 1,
                            !.animationTimer = [pending      |-> TRUE,
                                                moveIndex    |-> moveIndex + 1,
                                                currentBoxes |-> newBoxes,
                                                moves        |-> moveList]]

\* playAnimation
playAnimation(b) ==
    IF b.solveResult = Null \/ b.solveResult.moves = Null THEN b
    ELSE playNextMove([b EXCEPT !.isPlaying = TRUE,
                                !.currentMoveIndex = 0,
                                !.animationBoxes = b.boxes],
                      0, b.boxes, b.solveResult.moves.list)

\* stopAnimation
stopAnimation(b) == [b EXCEPT !.isPlaying = FALSE, !.animationTimer = NoTimer]

\* resetAnimation
resetAnimation(b) ==
    LET stopped == stopAnimation(b)
    IN  IF b.puzzleJson = InvalidJson
        THEN [stopped EXCEPT !.animationBoxes = <<>>, !.currentMoveIndex = 0]
        ELSE IF ~IsBoxesJson(b.puzzleJson) THEN stopped
        ELSE LET parsed == Parsed(stopped)
             IN  [setBoxes([stopped EXCEPT !.arrays = parsed.arrays], parsed.boxes) EXCEPT
                     !.animationBoxes = <<>>,
                     !.currentMoveIndex = 0]

\* The component as useState and useRef set it up.
Mounted ==
    The({setBoxes([mounted          |-> TRUE,
                   selectedColor    |-> "Re",
                   arrays           |-> empty,
                   boxes            |-> <<>>,
                   colorCounts      |-> <<>>,
                   isValidState     |-> FALSE,
                   solveResult      |-> Null,
                   isLoading        |-> FALSE,
                   animationBoxes   |-> <<>>,
                   isPlaying        |-> FALSE,
                   currentMoveIndex |-> 0,
                   puzzleJson       |-> JSONstringify(empty),
                   boxCount         |-> 4,
                   solveTimer       |-> NoTimer,
                   animationTimer   |-> NoTimer,
                   clicks           |-> 0,
                   solves           |-> 0,
                   plays            |-> 0,
                   handled          |-> "none"],
                  <<1, 2, 3, 4>>) :
            empty \in {<<<<>>, <<>>, <<>>, <<>>>>}})

\* The model follows the component for at most this many clicks on a box,
\* on Solve Puzzle and on Play.
MaxClicks == 1

MaxSolves == 1

MaxPlays == 2

\* The slider of the box count goes from 4 to 20; the model moves it up to
\* this count.
MinBoxCount == 4

MaxBoxCount == 5

\* The colors the model picks in the palette.
PaletteColors == {"Re", "Ye"}

\* A puzzle of two colors that takes three moves.
ThreeMovePuzzle ==
    <<<<"Re", "Re", "Re", "Ye">>, <<"Ye", "Ye", "Ye", "Re">>, <<>>, <<>>>>

\* The texts the model types into the JSON textarea: the three move puzzle,
\* five boxes of which four hold a ball, a box of an invalid color, and a
\* text that is no JSON.
JsonTexts ==
    {JSONstringify(ThreeMovePuzzle),
     JSONstringify(<<<<"Re">>, <<"Re">>, <<"Re">>, <<"Re">>, <<>>>>),
     JSONstringify(<<<<"XX", "XX", "XX", "XX">>, <<>>, <<>>>>),
     InvalidJson}

BuilderInit ==
    /\ st = NoState
    /\ initialState = NoState
    /\ progressCallback = FALSE
    /\ pc = "idle"
    /\ SolveNotStarted
    /\ builder = Mounted
    /\ otherState = NoState
    /\ heap = <<>>
    /\ callerBoxes = 0
    /\ object = NoObject
    /\ returned = NoObject
    /\ last = [op |-> "none"]

\* Everything but the component.
notBuilder == <<st, solveVars, second, otherState, heapVars>>

\* A color of the palette is clicked.
SelectColor ==
    /\ \E color \in PaletteColors :
         /\ color # builder.selectedColor
         /\ builder' = Rendered([builder EXCEPT !.selectedColor = color], "setSelectedColor")
    /\ UNCHANGED notBuilder

\* A box on display is clicked.
BoxClick ==
    /\ builder.clicks < MaxClicks
    /\ \E boxIndex \in 0..(Len(builder.boxes) - 1) :
         /\ builder.animationBoxes # <<>> => boxIndex < Len(builder.animationBoxes)
         /\ builder' = Rendered([handleBoxClick(builder, boxIndex) EXCEPT
                                    !.clicks = @ + 1], "handleBoxClick")
    /\ UNCHANGED notBuilder

\* Clear All is clicked.
ClearAll ==
    /\ builder' = Rendered(clearAll(builder), "clearAll")
    /\ UNCHANGED notBuilder

\* The slider of the box count is moved.
BoxCountChange ==
    /\ \E newCount \in MinBoxCount..MaxBoxCount :
         /\ newCount # builder.boxCount
         /\ builder' = Rendered(handleBoxCountChange(builder, newCount), "handleBoxCountChange")
    /\ UNCHANGED notBuilder

\* The text of the JSON textarea is replaced.
JsonChange ==
    /\ \E text \in JsonTexts :
         /\ text # builder.puzzleJson
         /\ builder' = Rendered([builder EXCEPT !.puzzleJson = text], "setPuzzleJson")
    /\ UNCHANGED notBuilder

\* Load JSON is clicked.
LoadFromJson ==
    /\ builder' = Rendered(loadFromJson(builder), "loadFromJson")
    /\ UNCHANGED notBuilder

\* Solve Puzzle is clicked; the button is disabled={!isValidState || isLoading}.
HandleSolve ==
    /\ builder.solves < MaxSolves
    /\ builder.isValidState
    /\ ~builder.isLoading
    /\ builder' = Rendered([handleSolve(builder) EXCEPT !.solves = @ + 1], "handleSolve")
    /\ UNCHANGED notBuilder

\* The timer of handleSolve fires: solve runs on initialState and, when it
\* has resolved, the rest of the callback runs.  A solve that awaits the
\* timer would leave the callback suspended; the puzzles of the model are
\* solved without one, and within a tick of the clock.
SolveTimer ==
    /\ builder.solveTimer.pending
    /\ \E totalTime \in {0} :
         \E solveResult \in {solveAlone(builder.solveTimer.initialState, totalTime)} :
            /\ YieldsOf(solveResult) = 0
            /\ builder' = Rendered(solveResolved(builder, solveResult), "solve")
    /\ UNCHANGED notBuilder

\* Play is clicked; the button is disabled={isPlaying || !solveResult?.moves}.
PlayAnimation ==
    /\ builder.plays < MaxPlays
    /\ ~builder.isPlaying
    /\ builder.solveResult # Null
    /\ builder.solveResult.moves # Null
    /\ builder' = Rendered([playAnimation(builder) EXCEPT !.plays = @ + 1], "playAnimation")
    /\ UNCHANGED notBuilder

\* The timer of the animation fires.
AnimationTimer ==
    /\ builder.animationTimer.pending
    /\ builder' = Rendered(playNextMove([builder EXCEPT !.animationTimer = NoTimer],
                                        builder.animationTimer.moveIndex,
                                        builder.animationTimer.currentBoxes,
                                        builder.animationTimer.moves), "playNextMove")
    /\ UNCHANGED notBuilder

\* Stop is clicked; the button is disabled={!isPlaying || !solveResult?.moves}.
StopAnimation ==
    /\ builder.isPlaying
    /\ builder.solveResult # Null
    /\ builder.solveResult.moves # Null
    /\ builder' = Rendered(stopAnimation(builder), "stopAnimation")
    /\ UNCHANGED notBuilder

\* Reset is clicked; the button is disabled={!solveResult?.moves}.
ResetAnimation ==
    /\ builder.solveResult # Null
    /\ builder.solveResult.moves # Null
    /\ builder' = Rendered(resetAnimation(builder), "resetAnimation")
    /\ UNCHANGED notBuilder

\* The clicks, the slider, the textarea and Solve Puzzle, without the
\* animation.
EditNext ==
    \/ SelectColor
    \/ BoxClick
    \/ ClearAll
    \/ BoxCountChange
    \/ JsonChange
    \/ LoadFromJson
    \/ HandleSolve
    \/ SolveTimer

EditSpec == BuilderInit /\ [][EditNext]_vars

\* The textarea, Load JSON, Clear All, Solve Puzzle and the animation,
\* without clicks on the boxes, the palette or the slider.
PlayNext ==
    \/ ClearAll
    \/ JsonChange
    \/ LoadFromJson
    \/ HandleSolve
    \/ SolveTimer
    \/ PlayAnimation
    \/ AnimationTimer
    \/ StopAnimation
    \/ ResetAnimation

PlaySpec == BuilderInit /\ [][PlayNext]_vars

-----------------------------------------------------------------------------
(* What the claims speak of *)

\* The set of the elements of a sequence.
Range(seq) == {seq[i] : i \in 1..Len(seq)}

\* The states one legal move away from a state of S.
Successors(S) ==
    UNION {{applyMove(s, moves(s)[k]) : k \in 1..Len(moves(s))} : s \in S}

\* The least number of legal moves from a state of frontier to a solved
\* state, plus d; -1 when no solved state can be reached.  seen holds the
\* box arrangements reached so far, each as it is (no canonical key).
RECURSIVE SolvedDistance(_, _, _)
SolvedDistance(frontier, seen, d) ==
    IF \E s \in frontier : solved(s) THEN d
    ELSE IF frontier = {} THEN -1
    ELSE LET next == Successors(frontier) \ seen
         IN  SolvedDistance(next, seen \cup next, d + 1)

\* The least number of legal moves that solve initialState, or -1.
MinMoves == SolvedDistance({initialState}, {initialState}, 0)

\* The state that applying the moves of path in order leaves, or Illegal
\* when one of them is not in the move list of the state it is applied to.
Illegal == [illegal |-> TRUE]

RECURSIVE Replay(_, _)
Replay(state, path) ==
    IF path = <<>> THEN state
    ELSE IF Head(path) \notin Range(moves(state)) THEN Illegal
    ELSE Replay(applyMove(state, Head(path)), Tail(path))

\* The colors that occur in a state, and the places of one color.
ColorsOf(state) == Range(Balls(state.boxes))

PlacesOf(state, c) ==
    {<<i, j>> \in (1..Len(state.boxes)) \X (1..(MaxLen + 1)) :
        j <= Len(state.boxes[i]) /\ state.boxes[i][j] = c}

\* A box of four balls of one color.
FullUniform(box) == Len(box) = 4 /\ \A j, k \in 1..4 : box[j] = box[k]

\* A box of one to three balls.
Partial(box) == Len(box) \in 1..3

\* The solved state of the puzzle: every box empty or full and uniform, and
\* four balls of every color that occurs.
SortedOut(state) ==
    /\ \A i \in 1..Len(state.boxes) :
         state.boxes[i] = <<>> \/ FullUniform(state.boxes[i])
    /\ \A c \in ColorsOf(state) : Cardinality(PlacesOf(state, c)) = 4

Returned == pc = "done"

ReturnedMoves == Returned /\ result.moves # Null

ReturnedNull == Returned /\ result.moves = Null

-----------------------------------------------------------------------------
(* Claims about solve *)

\* C1: when some solved state can be reached from the initial state by legal
\* moves, the move list solve returns is as short as any sequence of legal
\* moves from the initial state to a solved state.
C1_ShortestSolution ==
    (Returned /\ MinMoves >= 0) =>
        (result.moves # Null /\ Len(result.moves.list) = MinMoves)

\* solve has returned a solution of four moves or more.
C1_Witness == ReturnedMoves /\ Len(result.moves.list) >= 4 /\ Len(initialState.boxes) = 3

\* C2: solve returns null moves exactly when no solved state can be reached
\* from the initial state by legal moves.
C2_NullIffUnsolvable == Returned => (result.moves = Null <=> MinMoves = -1)

\* solve has returned null for an initial state that has legal moves.
C2_Witness == ReturnedNull /\ moves(initialState) # <<>> /\ processed >= 4

\* C3: the moves solve returns can be applied in order to the initial state,
\* each one a legal move of the state it is applied to, and they leave
\* exactly the final state solve returns.
C3_MovesReplay ==
    ReturnedMoves => Replay(initialState, result.moves.list) = result.finalState

\* solve has returned three moves or more, and the final state is another
\* arrangement than the initial one.
C3_Witness ==
    /\ ReturnedMoves
    /\ Len(result.moves.list) >= 3
    /\ result.finalState # initialState

\* C4: when solve returns a move list, the final state it returns is solved
\* and stats.solutionLength is the length of the move list.
C4_SolvedAndLength ==
    ReturnedMoves =>
        /\ SortedOut(result.finalState)
        /\ result.stats.solutionLength = Len(result.moves.list)

\* solve has returned a solution of two colors.
C4_Witness ==
    /\ ReturnedMoves
    /\ result.stats.solutionLength >= 2
    /\ Cardinality(ColorsOf(result.finalState)) = 2

\* C5: when the queue empties with no solved state found, solve returns (it
\* throws nothing) the initial state as final state, null moves, solution
\* length 0 and the number of states dequeued, which are then all the
\* states ever queued: one for each visited key.
C5_UnsolvableResult ==
    ReturnedNull =>
        /\ ~IsThrown(result)
        /\ queue = <<>>
        /\ result.finalState = initialState
        /\ result.stats.solutionLength = 0
        /\ result.stats.statesProcessed = processed
        /\ result.stats.statesProcessed = Cardinality(visited)

\* solve has returned null after dequeuing several states.
C5_Witness == ReturnedNull /\ result.stats.statesProcessed >= 5

\* C6: on a solved initial state solve returns at once: nothing is queued,
\* dequeued or awaited, and the result is the initial state, an empty move
\* list that is not null, and the statistics 0, 0 and 0.
C6_AlreadySolved ==
    (Returned /\ SortedOut(initialState)) =>
        /\ result.finalState = initialState
        /\ result.moves = MoveList(<<>>)
        /\ result.stats = [totalTime |-> 0, statesProcessed |-> 0, solutionLength |-> 0]
        /\ processed = 0
        /\ queue = <<>>
        /\ visited = {}
        /\ yields = 0

\* solve has returned on a solved initial state that holds balls.
C6_Witness == Returned /\ SortedOut(initialState) /\ ColorsOf(initialState) # {}

\* C7: solve terminates on every input, with a solution or with the
\* unsolvable result, when the host resumes it after each await.
C7_Terminates == <>Returned

\* solve has returned after it had awaited the timer.
C7_Witness == Returned /\ yields >= 1

-----------------------------------------------------------------------------
(* Claims about the State class *)

\* Every box of st is empty or four balls of one color.
AllEmptyOrFullUniform ==
    \A i \in 1..Len(st.boxes) : st.boxes[i] = <<>> \/ FullUniform(st.boxes[i])

\* No two boxes of st hold balls of one color.
BoxColorsDiffer ==
    \A i, j \in 1..Len(st.boxes) :
        (i # j /\ st.boxes[i] # <<>> /\ st.boxes[j] # <<>>) =>
            st.boxes[i][1] # st.boxes[j][1]

\* C8: solved is true exactly when every box is empty or holds four balls
\* of one color, and every color that occurs in the state occurs four times
\* in all.
C8_SolvedIff == solved(st) <=> SortedOut(st)

\* Every box is empty or full and uniform, and yet the state is not solved:
\* one color fills two boxes.
C8_Witness == AllEmptyOrFullUniform /\ ~solved(st) /\ Len(st.boxes) >= 2

\* C9 as stated: every state of full uniform boxes and empty boxes only,
\* whatever the colors of the boxes, is solved, and every state with a box
\* of one to three balls is not.
C9_AnyColors ==
    /\ AllEmptyOrFullUniform => solved(st) = TRUE
    /\ (\E i \in 1..Len(st.boxes) : Partial(st.boxes[i])) => solved(st) = FALSE

\* C9: every state of full uniform boxes, no two of one color, and empty
\* boxes only is solved, and every state with a box of one to three balls is
\* not.
C9_DifferentColors ==
    /\ (AllEmptyOrFullUniform /\ BoxColorsDiffer) => solved(st) = TRUE
    /\ (\E i \in 1..Len(st.boxes) : Partial(st.boxes[i])) => solved(st) = FALSE

\* Two full boxes of two colors beside an empty box: solved is true.
C9_Witness ==
    /\ AllEmptyOrFullUniform
    /\ BoxColorsDiffer
    /\ Cardinality(ColorsOf(st)) = 2
    /\ \E i \in 1..Len(st.boxes) : st.boxes[i] = <<>>

\* The condition of the claim on the ordered pair (s, d) of box indices.
MoveExists(s, d) ==
    LET source      == st.boxes[s + 1]
        destination == st.boxes[d + 1]
    IN  /\ s # d
        /\ source # <<>>
        /\ Len(destination) < 4
        /\ \/ destination = <<>>
           \/ destination[Len(destination)] = source[Len(source)]

\* C10: the pair (s, d) of box indices is in moves exactly when s differs
\* from d, box s is not empty, box d holds fewer than four balls, and box d
\* is empty or its last ball has the color of the last ball of box s.
C10_MovesIff ==
    \A listed \in {Range(moves(st))} :
        \A s, d \in 0..(Len(st.boxes) - 1) :
            Move(s, d) \in listed <=> MoveExists(s, d)

\* moves holds a move onto a ball of the same color, and leaves out a pair
\* that only the four balls of the destination rule out.
C10_Witness ==
    /\ \E m \in Range(moves(st)) : st.boxes[m.toBoxNumber + 1] # <<>>
    /\ \E s, d \in 0..(Len(st.boxes) - 1) :
         /\ s # d
         /\ st.boxes[s + 1] # <<>>
         /\ Len(st.boxes[d + 1]) = 4
         /\ st.boxes[d + 1][4] = st.boxes[s + 1][Len(st.boxes[s + 1])]

\* (s, d) comes before (s2, d2) in the lexicographic order of the pairs.
MoveBefore(m, m2) ==
    \/ m.fromBoxNumber < m2.fromBoxNumber
    \/ m.fromBoxNumber = m2.fromBoxNumber /\ m.toBoxNumber < m2.toBoxNumber

\* C11: moves lists the legal moves without duplicates, by ascending source
\* index and by ascending destination index within one source: each entry
\* comes strictly before every later one in the lexicographic order.
C11_MovesAscending ==
    \A listed \in {moves(st)} :
        \A i, j \in 1..Len(listed) : i < j => MoveBefore(listed[i], listed[j])

\* moves lists two moves of one source and moves of two sources.
C11_Witness ==
    \A listed \in {moves(st)} :
        /\ \E i, j \in 1..Len(listed) :
             /\ listed[i].fromBoxNumber = listed[j].fromBoxNumber
             /\ listed[i].toBoxNumber # listed[j].toBoxNumber
        /\ \E i, j \in 1..Len(listed) :
             listed[i].fromBoxNumber # listed[j].fromBoxNumber

\* The box numbers of the boxes of st that hold balls, and of the empty ones.
NonEmptyBoxes == {i \in 0..(Len(st.boxes) - 1) : st.boxes[i + 1] # <<>>}

EmptyBoxes == {i \in 0..(Len(st.boxes) - 1) : st.boxes[i + 1] = <<>>}

\* No two boxes of st that hold balls have the same color on top.
TopColorsDiffer ==
    \A i, j \in NonEmptyBoxes :
        i # j => st.boxes[i + 1][Len(st.boxes[i + 1])] # st.boxes[j + 1][Len(st.boxes[j + 1])]

\* C12: with N boxes that hold balls, their top colors pairwise distinct,
\* and M empty boxes, moves returns exactly N x M moves: one from every box
\* that holds balls to every empty box, and none between two boxes that hold
\* balls.
C12_MovesToEmptyBoxes ==
    TopColorsDiffer =>
        \A listed \in {moves(st)} :
            /\ Len(listed) = Cardinality(NonEmptyBoxes) * Cardinality(EmptyBoxes)
            /\ Range(listed) = {Move(s, d) : s \in NonEmptyBoxes, d \in EmptyBoxes}

\* Two boxes with different colors on top, one of them full, and one empty box.
C12_Witness ==
    /\ TopColorsDiffer
    /\ Cardinality(NonEmptyBoxes) = 2
    /\ Cardinality(EmptyBoxes) = 1
    /\ \E i \in NonEmptyBoxes : Len(st.boxes[i + 1]) = 4

\* C13: for a legal move (s, d) applyMove returns a state with as many boxes,
\* in which box s is the old box s without its last ball and box d is the
\* old box d with that ball appended as its last element.
C13_ApplyMoveRelocates ==
    \A m \in Range(moves(st)) :
        \A next \in {applyMove(st, m)} :
            LET s == m.fromBoxNumber + 1
                d == m.toBoxNumber + 1
            IN  /\ ~IsThrown(next)
                /\ Len(next.boxes) = Len(st.boxes)
                /\ next.boxes[s] = SubSeq(st.boxes[s], 1, Len(st.boxes[s]) - 1)
                /\ next.boxes[d] = Append(st.boxes[d], st.boxes[s][Len(st.boxes[s])])

\* A legal move takes a ball from a box of two colors onto a ball of its color.
C13_Witness ==
    \E m \in Range(moves(st)) :
        /\ st.boxes[m.toBoxNumber + 1] # <<>>
        /\ Cardinality(Range(st.boxes[m.fromBoxNumber + 1])) = 2

-----------------------------------------------------------------------------
(* Claims about the State object and the arrays it holds *)

\* The boxes of the State object, and those of what applyMove returned.
ObjectBoxes == View(heap, object.boxes)

ReturnedBoxes == View(heap, returned.boxes)

\* C14: applyMove leaves every box of the receiver with the contents it had
\* before the call, and every box of the returned state other than the
\* source and the destination has the contents it has in the receiver.
C14_ReceiverAndOthersKept ==
    [][last'.op = "applyMove" =>
        /\ View(heap', object.boxes) = View(heap, object.boxes)
        /\ ~IsThrown(returned') =>
             /\ Len(View(heap', returned'.boxes)) = Len(View(heap, object.boxes))
             /\ \A i \in 1..Len(View(heap, object.boxes)) :
                  i \notin {last'.move.fromBoxNumber + 1, last'.move.toBoxNumber + 1} =>
                      View(heap', returned'.boxes)[i] = View(heap, object.boxes)[i]
      ]_vars

\* applyMove has returned a State of three boxes, one ball moved from a box
\* to another and the third box holds balls.
C14_Witness ==
    /\ last.op = "applyMove"
    /\ ~IsThrown(returned)
    /\ last.move.fromBoxNumber # last.move.toBoxNumber
    /\ ReturnedBoxes # ObjectBoxes
    /\ \E i \in 1..Len(ReturnedBoxes) :
         /\ i \notin {last.move.fromBoxNumber + 1, last.move.toBoxNumber + 1}
         /\ ReturnedBoxes[i] # <<>>

\* The boxes of the array the caller passed to the constructor.
CallerBoxes == View(heap, callerBoxes)

\* The balls of the caller's boxes that are none of the recognized colors.
Offending == Range(Balls(CallerBoxes)) \ validColors

\* C18: constructing a State fails with an error that names the offending
\* value whenever a ball is none of the 15 recognized color codes, and
\* succeeds whenever every ball is one, whatever the lengths of the boxes
\* and the number of balls of a color.
C18_InvalidColorError ==
    /\ Cardinality(validColors) = 15
    /\ last.op = "construct" =>
         IF Offending # {}
         THEN /\ IsThrown(object)
              /\ object.error = "Invalid color"
              /\ object.value \in Offending
         ELSE /\ ~IsThrown(object)
              /\ ObjectBoxes = CallerBoxes

\* The constructor has thrown on boxes that hold a color below two values
\* that are none, and has named one of the two.
C18_Witness ==
    /\ last.op = "construct"
    /\ IsThrown(object)
    /\ Cardinality(Offending) = 2
    /\ \E i \in 1..Len(CallerBoxes) :
         Len(CallerBoxes[i]) >= 2 /\ CallerBoxes[i][1] \in validColors

\* C19: the constructor copies its input: a change of the caller's arrays
\* after the construction leaves the boxes of the State as they were, and a
\* change of the arrays of the State leaves the caller's as they were.
C19_ConstructorCopies ==
    [][/\ last'.op = "caller" => View(heap', object.boxes) = View(heap, object.boxes)
       /\ last'.op = "state" => View(heap', callerBoxes) = View(heap, callerBoxes)
      ]_vars

\* The caller has pushed a ball onto a box it had passed to the constructor
\* with balls in it, and the State does not hold that ball.
C19_Witness ==
    /\ last.op = "caller"
    /\ Len(CallerBoxes) = Len(ObjectBoxes)
    /\ \E i \in 1..Len(CallerBoxes) :
         /\ ObjectBoxes[i] # <<>>
         /\ Len(CallerBoxes[i]) = Len(ObjectBoxes[i]) + 1

-----------------------------------------------------------------------------
(* Claims about canonicalKey and equivalentTo *)

\* How many boxes of a state have the given contents.
TimesIn(state, box) == Cardinality({i \in 1..Len(state.boxes) : state.boxes[i] = box})

\* The two states have the same multiset of box contents, each box taken as
\* the sequence of its colors.
SameContents(a, b) ==
    \A box \in Range(a.boxes) \cup Range(b.boxes) : TimesIn(a, box) = TimesIn(b, box)

\* b holds the boxes of a in another order (or in the same).
Rearranged(a, b) ==
    /\ Len(a.boxes) = Len(b.boxes)
    /\ \E p \in [1..Len(a.boxes) -> 1..Len(a.boxes)] :
         /\ \A i, j \in 1..Len(a.boxes) : i # j => p[i] # p[j]
         /\ \A i \in 1..Len(a.boxes) : b.boxes[i] = a.boxes[p[i]]

\* C15: two states have equal canonical keys exactly when they have the same
\* multiset of box contents, whichever index holds which box.
C15_KeyIffSameContents ==
    canonicalKey(st) = canonicalKey(otherState) <=> SameContents(st, otherState)

\* Two different box arrays with equal keys.
C15_Witness ==
    /\ st # otherState
    /\ canonicalKey(st) = canonicalKey(otherState)
    /\ Len(Balls(st.boxes)) >= 2

\* C16: equivalentTo is true for two states that are rearrangements of the
\* boxes of one another, and false for two states whose multisets of box
\* contents differ, also when only the order of the balls in a box differs.
C16_EquivalentToRearranged ==
    /\ Rearranged(st, otherState) => equivalentTo(st, otherState) = TRUE
    /\ ~SameContents(st, otherState) => equivalentTo(st, otherState) = FALSE

\* Two states that differ in the order of the balls of one box only, which
\* equivalentTo tells apart.
C16_Witness ==
    /\ Len(st.boxes) = Len(otherState.boxes)
    /\ \E i \in 1..Len(st.boxes) :
         /\ st.boxes[i] # otherState.boxes[i]
         /\ CountBalls(st.boxes[i]) = CountBalls(otherState.boxes[i])
         /\ \A j \in 1..Len(st.boxes) : j # i => st.boxes[j] = otherState.boxes[j]
    /\ ~equivalentTo(st, otherState)

\* C17: a.equivalentTo(b) is true exactly when the canonical keys of a and b
\* are equal.
C17_EquivalentToIffKeys ==
    equivalentTo(st, otherState) <=> canonicalKey(st) = canonicalKey(otherState)

\* equivalentTo is true of two different arrangements of two boxes that
\* hold balls.
C17_Witness ==
    /\ equivalentTo(st, otherState)
    /\ st # otherState
    /\ Len(st.boxes) = 2
    /\ \A i \in 1..2 : st.boxes[i] # <<>>

-----------------------------------------------------------------------------
(* Claims about the progress reports of solve *)

\* C20: in a solve with a progress observer, the observer is called exactly
\* once each time the number of dequeued states reaches a positive multiple
\* of 1000 and at no other time, with the number of states dequeued so far
\* and the number of entries the queue holds at that moment.
C20_ProgressReports ==
    /\ [](progressCallback => Len(reports) = processed \div 1000)
    /\ [][reports' # reports =>
            /\ progressCallback
            /\ processed' = processed + 1
            /\ processed' > 0 /\ processed' % 1000 = 0
            /\ reports' = Append(reports, <<processed', Len(queue')>>)
         ]_vars

\* The observer has been called once, while the queue held entries.
C20_Witness == Len(reports) = 1 /\ reports[1][1] = 1000 /\ reports[1][2] > 0

\* C21: within one solve the processed counts of successive progress reports
\* increase strictly, the result is delivered once and stays as it is, it is
\* delivered only when the queue is empty or a solved state is found, and no
\* progress report follows it.
C21_ReportsThenOneResult ==
    /\ [](\A i, j \in 1..Len(reports) : i < j => reports[i][1] < reports[j][1])
    /\ [][/\ result # NoResult => (result' = result /\ reports' = reports)
          /\ (result = NoResult /\ result' # NoResult) =>
               \/ queue = <<>> /\ result'.moves = Null
               \/ SortedOut(result'.finalState) /\ result'.moves # Null
         ]_vars

\* The result has been delivered after a progress report.
C21_Witness == Returned /\ result # NoResult /\ Len(reports) >= 1

\* The number of moves a SolveResult returns, -1 for null.
MovesLength(r) == IF r.moves = Null THEN -1 ELSE Len(r.moves.list)

C23_StatesProcessedCountsDequeued ==
    (ReturnedMoves /\ ~solved(initialState)) =>
        /\ result.stats.statesProcessed = processed
        /\ result.stats.statesProcessed = Cardinality(visited) - 1 - Len(queue)
        /\ result.stats.statesProcessed >= 1

\* A solution found by the expansion of the third state dequeued, with
\* states left in the queue.
C23_Witness ==
    /\ ReturnedMoves /\ ~solved(initialState)
    /\ result.stats.statesProcessed = 3 /\ Len(queue) >= 1

-----------------------------------------------------------------------------
(* Claims about applyMove and the states solve creates *)

\* The moves between boxes of st that st.moves does not list.
IllegalMoves ==
    {Move(s, d) : s, d \in 0..(Len(st.boxes) - 1)} \ Range(moves(st))

\* C24: applyMove called with a move that st.moves does not list (empty
\* source, full destination, destination top of another color than the
\* source top, or source equal to destination) throws an error and returns
\* no State.
C24_IllegalMoveThrows ==
    \A move \in IllegalMoves : IsThrown(applyMove(st, move))

\* What applyMove does with such a move: it throws only when the source is
\* empty, the error new State throws for the undefined that pop returned.
C24_OnlyEmptySourceThrows ==
    \A move \in IllegalMoves :
        \E r \in {applyMove(st, move)} :
            IF st.boxes[move.fromBoxNumber + 1] = <<>>
            THEN r = Thrown("Invalid color", "undefined")
            ELSE /\ ~IsThrown(r)
                 /\ Len(Balls(r.boxes)) = Len(Balls(st.boxes))

\* A ball of another color moved onto a full box: applyMove returns a State
\* with a box of five balls.
C24_Witness ==
    /\ st = State(<< <<"Re", "Re", "Re", "Re">>, <<"Ye">> >>)
    /\ Move(1, 0) \in IllegalMoves
    /\ applyMove(st, Move(1, 0)) =
          State(<< <<"Re", "Re", "Re", "Re", "Ye">>, <<>> >>)

\* Every box of the state holds at most n balls.
BoxesAtMost(state, n) == \A i \in 1..Len(state.boxes) : Len(state.boxes[i]) <= n

\* Every box string of a canonical key holds at most n balls: the key has no
\* 2n + 1 code units in a row that are letters of color codes (the quotes,
\* commas and brackets between box strings are below 65 or are 91 and 93).
KeyBoxesAtMost(key, n) ==
    \A i \in 1..(Len(key) - 2 * n) :
        \E j \in i..(i + 2 * n) : key[j] < 65 \/ key[j] = 91 \/ key[j] = 93

\* The states solve holds: those in the queue, the one kept across the
\* await, and the finalState of the result.
StatesHeld ==
    {queue[i][1] : i \in 1..Len(queue)}
        \cup (IF cur = NoEntry THEN {} ELSE {cur[1]})
        \cup (IF result = NoResult THEN {} ELSE {result.finalState})

\* C25: when no box of the initial state holds more than 4 balls, no state
\* that solve puts in the queue, records in visited or returns has a box of
\* more than 4 balls.
C25_AtMostFourBalls ==
    BoxesAtMost(initialState, 4) =>
        /\ \A state \in StatesHeld : BoxesAtMost(state, 4)
        /\ \A key \in visited : KeyBoxesAtMost(key, 4)

\* A state in the queue whose last move has filled a box to four balls,
\* next to a box that could give it a fifth of the same color.
C25_Witness ==
    /\ BoxesAtMost(initialState, 4)
    /\ \E i \in 1..Len(queue) :
         \E state \in {queue[i][1]}, path \in {queue[i][2]} :
            /\ path # <<>>
            /\ \E to \in {path[Len(path)].toBoxNumber + 1} :
                 /\ Len(state.boxes[to]) = 4
                 /\ \E from \in 1..Len(state.boxes) :
                      /\ from # to
                      /\ state.boxes[from] # <<>>
                      /\ state.boxes[from][Len(state.boxes[from])] = state.boxes[to][4]

\* C26: every state reached from the initial state by a sequence of legal
\* moves has as many boxes as the initial state and, of every color, as many
\* balls.
C26_BoxesAndColorCountsKept ==
    /\ ~IsThrown(st)
    /\ Len(st.boxes) = Len(initialState.boxes)
    /\ \A c \in validColors \cup {"undefined"} :
         NumberOf(st, c) = NumberOf(initialState, c)

\* A state reached by legal moves in which every box that holds balls
\* differs from the box of the initial state.
C26_Witness ==
    /\ Len(Balls(st.boxes)) = 8
    /\ \A i \in 1..Len(st.boxes) :
         st.boxes[i] # <<>> => st.boxes[i] # initialState.boxes[i]
    /\ Cardinality({i \in 1..Len(st.boxes) : st.boxes[i] # <<>>}) = 3

\* The states that sequences of legal moves reach from those of frontier,
\* seen included.
RECURSIVE Reach(_, _)
Reach(frontier, seen) ==
    IF frontier = {} THEN seen
    ELSE LET next == Successors(frontier) \ seen
         IN  Reach(next, seen \cup next)

\* The canonical keys of the states reachable from initialState: one for
\* each equivalence class of them.
ReachableKeys == {canonicalKey(s) : s \in Reach({initialState}, {initialState})}

\* The canonical keys of the entries of the queue, in its order.
QueueKeys == [i \in 1..Len(queue) |-> canonicalKey(queue[i][1])]

\* C27: the canonical key of every entry of the queue is in visited and no
\* two entries ever put in the queue have the same key: the keys in the
\* queue differ, and the entries put in it so far (those dequeued and those
\* still in it) are as many as the keys in visited, the key of a solved
\* state found aside.  So statesProcessed is at most the number of keys in
\* visited, which are keys of states reachable from initialState.
C27_OneEntryPerKey ==
    pc \in {"loop", "done"} /\ ~solved(initialState) =>
        \A keys \in {QueueKeys} :
            /\ Range(keys) \subseteq visited
            /\ \A i, j \in 1..Len(keys) : i # j => keys[i] # keys[j]
            /\ processed + Len(queue) =
                  Cardinality(visited) - (IF ReturnedMoves THEN 1 ELSE 0)
            /\ Returned =>
                  /\ result.stats.statesProcessed <= Cardinality(visited)
                  /\ visited \subseteq ReachableKeys

\* Three states are dequeued, three wait, and a move of the next state to
\* dequeue leads to a state whose key is in visited.
C27_Witness ==
    /\ pc = "loop"
    /\ processed >= 3
    /\ Len(queue) >= 3
    /\ \E m \in Range(moves(queue[1][1])) :
         canonicalKey(applyMove(queue[1][1], m)) \in visited

\* The lengths of the paths of the entries of the queue, in its order.
PathLengths == [i \in 1..Len(queue) |-> Len(queue[i][2])]

\* C28: states are dequeued first in, first out and in non-decreasing path
\* length: a step of the loop takes the entry at the front and leaves the
\* others in their order before the entries it pushes, and at every point
\* the path lengths in the queue do not decrease from front to back and the
\* last exceeds the first by at most 1.
C28_FirstInFirstOut ==
    /\ [](\A lengths \in {PathLengths} :
            /\ \A i, j \in 1..Len(lengths) : i < j => lengths[i] <= lengths[j]
            /\ lengths # <<>> => lengths[Len(lengths)] <= lengths[1] + 1)
    /\ [][(pc = "loop" /\ processed' = processed + 1) =>
            /\ Len(queue') >= Len(queue) - 1
            /\ SubSeq(queue', 1, Len(queue) - 1) = Tail(queue)
            /\ \A i \in 1..Len(queue') : Len(queue'[i][2]) >= Len(Head(queue)[2])
         ]_vars

\* The queue holds paths of two lengths, two of each at least.
C28_Witness ==
    \A lengths \in {PathLengths} :
        /\ Len(lengths) >= 4
        /\ lengths[2] = lengths[1]
        /\ lengths[Len(lengths) - 1] = lengths[1] + 1

\* The least number of legal moves from a state of frontier to a state with
\* the canonical key, plus d; -1 when none is reachable.
RECURSIVE KeyDistance(_, _, _, _)
KeyDistance(key, frontier, seen, d) ==
    IF \E s \in frontier : canonicalKey(s) = key THEN d
    ELSE IF frontier = {} THEN -1
    ELSE LET next == Successors(frontier) \ seen
         IN  KeyDistance(key, next, seen \cup next, d + 1)

\* C29: for every entry [state, path] of the queue, the moves of path
\* applied in order to initialState, each of them legal where it is applied,
\* leave exactly state, and path is as long as the shortest sequence of
\* legal moves from initialState to a state equivalent to state.
C29_PathsReplayAndAreShortest ==
    \A i \in 1..Len(queue) :
        \A state \in {queue[i][1]}, path \in {queue[i][2]} :
            /\ Replay(initialState, path) = state
            /\ Len(path) =
                  KeyDistance(canonicalKey(state), {initialState}, {initialState}, 0)

\* An entry with a path of three moves whose state another arrangement of
\* the boxes, reachable as well, is equivalent to.
C29_Witness ==
    \E i \in 1..Len(queue) :
        /\ Len(queue[i][2]) = 3
        /\ \E s \in Reach({initialState}, {initialState}) :
             s # queue[i][1] /\ equivalentTo(s, queue[i][1])

\* C30: solve awaits the timer only when the number of dequeued states is a
\* positive multiple of 1000, with a progress observer or without: it has
\* awaited as often as processed has reached such a multiple, it is
\* suspended only at one, and a solved initial state is answered without
\* an await.
C30_YieldsAtBatchesOnly ==
    /\ yields = processed \div 1000
    /\ pc = "yield" => (processed > 0 /\ processed % 1000 = 0)
    /\ (Returned /\ SortedOut(initialState)) => yields = 0

\* solve is suspended, without a progress observer.
C30_Witness == pc = "yield" /\ ~progressCallback /\ processed = 1000

-----------------------------------------------------------------------------
(* Claims about permuted and equivalent states *)

\* C32: for two initial states of which one holds the boxes of the other in
\* another order, solve returns move lists of the same length, or null for
\* both.
C32_PermutedSameLength ==
    (Returned /\ previous # NoResult) =>
        /\ (previous.moves = Null) <=> (result.moves = Null)
        /\ MovesLength(previous) = MovesLength(result)

\* The second call, on three boxes of which none is where it was, has
\* returned moves that differ from those of the first call.
C32_Witness ==
    /\ Returned /\ previous # NoResult
    /\ Len(initialState.boxes) = 3
    /\ \A i \in 1..3 : initialState.boxes[i] # previous.finalState.boxes[i]
    /\ MovesLength(result) >= 3
    /\ result.moves # previous.moves

\* The canonical keys of the states that the legal moves of state lead to.
SuccessorKeys(state) ==
    {canonicalKey(applyMove(state, m)) : m \in Range(moves(state))}

\* C33: two states with equal canonical keys have the same value of solved,
\* as many legal moves, and the same set of canonical keys of the states
\* their legal moves lead to.  The states with the key of st are those that
\* hold its boxes in another order.
C33_EquivalentStatesAlike ==
    \A key \in {canonicalKey(st)}, keys \in {SuccessorKeys(st)} :
        \A other \in {Permuted(st, p) : p \in BoxOrders(Len(st.boxes))} :
            canonicalKey(other) = key =>
                /\ solved(other) = solved(st)
                /\ Len(moves(other)) = Len(moves(st))
                /\ SuccessorKeys(other) = keys

\* Three boxes that all differ, with legal moves that lead to states of
\* three keys at least, and an order of the boxes in which the move list is
\* another one.
C33_Witness ==
    /\ Len(st.boxes) = 3
    /\ Cardinality(Range(st.boxes)) = 3
    /\ Cardinality(SuccessorKeys(st)) >= 3
    /\ \E p \in BoxOrders(3) :
         /\ canonicalKey(Permuted(st, p)) = canonicalKey(st)
         /\ moves(Permuted(st, p)) # moves(st)

-----------------------------------------------------------------------------
(* Claims about fromTopDown *)

\* C38: fromTopDown turns each box from the top-down listing into the
\* bottom-up order: box i of the returned state is the reverse of the i-th
\* sequence given, and the boxes keep their order.  The boxes of st stand
\* for the listing.
C38_FromTopDownReverses ==
    \A r \in {fromTopDown(st.boxes)} :
        /\ ~IsThrown(r)
        /\ Len(r.boxes) = Len(st.boxes)
        /\ \A i \in 1..Len(st.boxes) : r.boxes[i] = Reverse(st.boxes[i])

\* What the two versions do: the box version returns every box in the order
\* given, the tube version returns it reversed.
C38_OnlyTubeVersionReverses ==
    \A r \in {fromTopDown(st.boxes)}, t \in {fromTopDownTubes(st.boxes)} :
        /\ r = st
        /\ Len(t.boxes) = Len(st.boxes)
        /\ \A i \in 1..Len(st.boxes) : t.boxes[i] = Reverse(st.boxes[i])

\* A listing with Re on top of Ye, which the box version returns with Re at
\* the bottom.
C38_Witness ==
    /\ st.boxes = << <<"Re", "Ye">>, <<>> >>
    /\ fromTopDown(st.boxes).boxes[1] = <<"Re", "Ye">>
    /\ fromTopDownTubes(st.boxes).boxes[1] = <<"Ye", "Re">>

-----------------------------------------------------------------------------
(* Claims about the PuzzleBuilder *)

\* The puzzle has at least one ball, 4 balls of every color it uses, and
\* only boxes of 0 or 4 balls.
IsCompletePuzzle(boxes) ==
    LET balls == Balls(boxes)
    IN  /\ balls # <<>>
        /\ \A i \in 1..Len(balls) :
             Cardinality({j \in 1..Len(balls) : balls[j] = balls[i]}) = 4
        /\ \A i \in 1..Len(boxes) : Len(boxes[i]) \in {0, 4}

C35_ResultOnlyForCurrentPuzzle ==
    [][builder'.handled = "solve" /\ builder.solveTimer.pending =>
          fromTopDown(BoxesOf(builder', builder'.boxes)) =
              builder.solveTimer.initialState]_vars

\* The result of solving the three move puzzle has been installed, and
\* every box of the component is empty.
C35_Witness ==
    /\ builder.handled = "solve"
    /\ builder.solveResult # Null
    /\ builder.solveResult.moves # Null
    /\ Len(builder.solveResult.moves.list) = 3
    /\ builder.boxes # <<>>
    /\ \A i \in 1..Len(builder.boxes) : builder.arrays[builder.boxes[i]] = <<>>

\* C36: a step of the animation leaves the boxes of the component as they
\* were, so that the animation starts from the puzzle that was solved when
\* it is played again.
C36_AnimationKeepsBoxes ==
    [][builder'.handled \in {"playAnimation", "playNextMove"} =>
          BoxesOf(builder', builder'.boxes) = BoxesOf(builder, builder.boxes)]_vars

\* The animation of the three move puzzle has made its first step: the text
\* of the puzzle is still the puzzle, the boxes of the component are not.
C36_Witness ==
    /\ builder.handled = "playAnimation"
    /\ builder.currentMoveIndex = 1
    /\ builder.plays = 1
    /\ builder.puzzleJson = JSONstringify(ThreeMovePuzzle)
    /\ BoxesOf(builder, builder.boxes) # ThreeMovePuzzle

\* The boxes with the last non-empty ones emptied, as many as needed.
RECURSIVE ClearedFromEnd(_, _)
ClearedFromEnd(boxes, needed) ==
    IF boxes = <<>> \/ needed <= 0 THEN boxes
    ELSE LET front == SubSeq(boxes, 1, Len(boxes) - 1)
             box   == boxes[Len(boxes)]
         IN  IF box = <<>> THEN Append(ClearedFromEnd(front, needed), box)
             ELSE Append(ClearedFromEnd(front, needed - 1), <<>>)

\* C37: when the box count is reduced and fewer than 2 of the remaining
\* boxes are empty, boxes are emptied from the last one on until 2 are
\* empty, and the other remaining boxes keep their balls.
C37_ClearsOnlyUntilTwoEmpty ==
    [][\A newCount \in MinBoxCount..MaxBoxCount :
          /\ newCount < Len(builder.boxes)
          /\ builder' = Rendered(handleBoxCountChange(builder, newCount),
                                 "handleBoxCountChange")
          => LET remaining == SubSeq(BoxesOf(builder, builder.boxes), 1, newCount)
                 emptyCount == Cardinality({i \in 1..newCount : remaining[i] = <<>>})
             IN  emptyCount < 2 =>
                    BoxesOf(builder', builder'.boxes) =
                        ClearedFromEnd(remaining, 2 - emptyCount)]_vars

\* The box count has been reduced to 4 after four boxes with one ball of Re
\* each were loaded (which moved the selection to Or): all four are empty.
C37_Witness ==
    /\ builder.handled = "handleBoxCountChange"
    /\ builder.selectedColor = "Or"
    /\ builder.boxCount = 4
    /\ BoxesOf(builder, builder.boxes) = <<<<>>, <<>>, <<>>, <<>>>>

-----------------------------------------------------------------------------
(* Claims about two calls of solve in flight *)

\* solveAlone returns what the steps of one call of solve lead to (it holds
\* under Spec and under SpecYield).
SolveAloneAgrees ==
    Returned => result = solveAlone(initialState, result.stats.totalTime)

\* The locals of the first call.
FirstLocals == <<queue, visited, processed, cur, result>>

=============================================================================
